---- MODULE Spec2Model ----
(***************************************************************************)
(* Model of the trace tools of kcore.                                      *)
(*   Spec      scripts/trace_compare.py  compare_traces, compare_three_way *)
(*             sim/trace_compare.py      compare_traces                    *)
(*   SpecSym   sim/parse_call_trace.py   addr_to_symbol                    *)
(*   SpecParse scripts/trace_compare.py  parse_rtl_trace, parse_spike_trace*)
(*   SpecCli   scripts/trace_compare.py  main (two files), detect_trace_type*)
(*   SpecTree  sim/parse_call_trace.py   parse_rtl_trace_tree              *)
(*   SpecScenario  the same, on call / return traces with varied symbols   *)
(*   SpecDecode    the same, call / return classification of one record    *)
(*   SpecMem       sim/analyze_mem_trace.py                                *)
(*   SpecAgree     both compare_traces on the same pair of streams         *)
(*   SpecKconfig   rtos/nuttx/scripts/patch_kconfig.py  patch_kconfig      *)
(* A parsed trace is a sequence of records [pc, instr].  Python indices    *)
(* are 0-based; At(s, i) reads s[i] the way a Python list does.            *)
(* Each specification runs one tool; the variables of the other tools      *)
(* stay at rest in it.                                                     *)
(***************************************************************************)
EXTENDS Integers, Sequences, FiniteSets, TLC

VARIABLES
    mode,          \* which routine runs: "scripts", "sim" (two-way) or "three"
    traces1,       \* traces1 / rtl_traces
    traces2,       \* traces2 / spike_traces
    traces3,       \* rv32sim_traces (three-way only)
    pc,            \* position in the routine
    start_pc,      \* trace1_start_pc / rtl_start_pc / rtl_start
    offset2,       \* trace2_offset / spike_offset
    offset3,       \* rv32sim_offset
    max_compare,   \* max_compare
    i,             \* loop index of the comparison walk
    mismatches,    \* mismatches
    reported,      \* number of "Mismatch at entry" detail blocks printed
    cmpLog,        \* index tuples the walk has compared, in order
    ret,           \* return value (-1 until the routine returns)
    verdict,       \* which message branch produced the return
    extra,         \* length delta printed by the PASS branches
    raised,        \* TRUE iff an exception escaped the routine
    \* addr_to_symbol
    symbols,       \* the symbol table: records [addr, name, type], as nm -n lists them
    symbols0,      \* the table as get_symbols_from_elf returned it
    q1,            \* addr of the lookup before the last one (-1: none yet)
    r1,            \* its result
    q2,            \* addr of the last lookup (-1: none yet)
    r2,            \* its result
    \* parse_rtl_trace / parse_spike_trace (scripts/trace_compare.py)
    pparser,       \* which parser runs: "rtl" or "spike" ("none": not running)
    pfile,         \* the lines of the file, each a sequence of tokens
    pidx,          \* 1-based index of the next line the for loop reads
    ptraces,       \* traces
    \* main, two-file mode (scripts/trace_compare.py)
    cfile1,        \* the lines of args.trace1
    cfile2,        \* the lines of args.trace2
    cpc,           \* position in main
    cidx,          \* 1-based index of the line detect_trace_type reads next
    type1,         \* type1 ("" before it is assigned)
    type2,         \* type2
    ctraces1,      \* main's traces1
    ctraces2,      \* main's traces2
    cexit,         \* the status passed to sys.exit, -1 while main runs
    \* parse_rtl_trace_tree (sim/parse_call_trace.py)
    tfile,         \* the trace file: entries [text, rep], rep copies of a line
    tphase,        \* position in the function
    trace_format,  \* trace_format
    tidx,          \* 1-based index of the entry the for loop handles
    line_num,      \* line_num (0: not yet bound)
    call_stack,    \* call_stack
    tree_output,   \* tree_output
    seen_calls,    \* seen_calls
    stack_size_cache, \* stack_size_cache
    scans,         \* the names get_stack_frame_size was called with, in order
    traised,       \* an exception left the function
    nCalls,        \* history: records so far with is_call
    nRets,         \* history: records so far with is_return
    nPush,         \* history: call records that made the stack one higher
    nPop,          \* history: return records that made the stack one lower
    \* call / return classification of one record (sim/parse_call_trace.py)
    dfmt,          \* trace_format
    dline,         \* line
    dw,            \* the opcode word the line was printed from, -1 if it has none
    dstage,        \* "line" before, "classified" after the classification
    d_is_call,     \* is_call
    d_is_return,   \* is_return
    \* sim/analyze_mem_trace.py
    mlog,          \* the lines of log_file: [tag, addr, data]
    mfound,        \* log_file exists
    mpc,           \* position in the script
    cpu_imem_reads,
    cpu_dmem_writes,
    cpu_dmem_reads,
    axi_writes,
    axi_reads,
    axi_read_dict,
    axi_write_dict,
    imem_matches,
    imem_excess_axi,
    dmem_read_matches,
    dmem_write_matches,
    mwarned,       \* the instruction-fetch WARNING was printed
    mexit,         \* the status passed to sys.exit, -1 while the script runs
    \* rtos/nuttx/scripts/patch_kconfig.py
    kfile,         \* the lines of kconfig_file on disk
    lines,         \* lines
    kpc,           \* position in patch_kconfig
    kruns,         \* history: completed runs of patch_kconfig
    kfile1,        \* history: the file as the first run left it
    \* both compare_traces on one pair of streams
    agstage,       \* which implementation runs: "scripts", then "sim"
    ret_scripts,   \* what scripts/trace_compare.py compare_traces returned
    verdict_scripts

vars == <<mode, traces1, traces2, traces3, pc, start_pc, offset2, offset3,
          max_compare, i, mismatches, reported, cmpLog, ret, verdict, extra,
          raised>>

symVars == <<symbols, symbols0, q1, r1, q2, r2>>

\* addr_to_symbol returned None
NoSymbol == [found |-> FALSE, name |-> "", offset |-> 0]

SymIdle ==
    /\ symbols = <<>>
    /\ symbols0 = <<>>
    /\ q1 = -1
    /\ r1 = NoSymbol
    /\ q2 = -1
    /\ r2 = NoSymbol

parseVars == <<pparser, pfile, pidx, ptraces>>

ParseIdle ==
    /\ pparser = "none"
    /\ pfile = <<>>
    /\ pidx = 1
    /\ ptraces = <<>>

cliVars == <<cfile1, cfile2, cpc, cidx, type1, type2, ctraces1, ctraces2, cexit>>

CliIdle ==
    /\ cfile1 = <<>>
    /\ cfile2 = <<>>
    /\ cpc = "none"
    /\ cidx = 1
    /\ type1 = ""
    /\ type2 = ""
    /\ ctraces1 = <<>>
    /\ ctraces2 = <<>>
    /\ cexit = -1

treeVars == <<tfile, tphase, trace_format, tidx, line_num, call_stack, tree_output,
              seen_calls, stack_size_cache, scans, traised, nCalls, nRets, nPush, nPop>>

TreeIdle ==
    /\ tfile = <<>>
    /\ tphase = "none"
    /\ trace_format = ""
    /\ tidx = 1
    /\ line_num = 0
    /\ call_stack = <<>>
    /\ tree_output = <<>>
    /\ seen_calls = {}
    /\ stack_size_cache = <<>>
    /\ scans = <<>>
    /\ traised = FALSE
    /\ nCalls = 0
    /\ nRets = 0
    /\ nPush = 0
    /\ nPop = 0

decVars == <<dfmt, dline, dw, dstage, d_is_call, d_is_return>>

DecIdle ==
    /\ dfmt = ""
    /\ dline = <<>>
    /\ dw = -1
    /\ dstage = "none"
    /\ d_is_call = FALSE
    /\ d_is_return = FALSE

memVars == <<mlog, mfound, mpc, cpu_imem_reads, cpu_dmem_writes, cpu_dmem_reads,
             axi_writes, axi_reads, axi_read_dict, axi_write_dict, imem_matches,
             imem_excess_axi, dmem_read_matches, dmem_write_matches, mwarned, mexit>>

MemIdle ==
    /\ mlog = <<>>
    /\ mfound = FALSE
    /\ mpc = "none"
    /\ cpu_imem_reads = <<>>
    /\ cpu_dmem_writes = <<>>
    /\ cpu_dmem_reads = <<>>
    /\ axi_writes = <<>>
    /\ axi_reads = <<>>
    /\ axi_read_dict = <<>>
    /\ axi_write_dict = <<>>
    /\ imem_matches = 0
    /\ imem_excess_axi = 0
    /\ dmem_read_matches = 0
    /\ dmem_write_matches = 0
    /\ mwarned = FALSE
    /\ mexit = -1

kcVars == <<kfile, lines, kpc, kruns, kfile1>>

KcIdle ==
    /\ kfile = <<>>
    /\ lines = <<>>
    /\ kpc = "none"
    /\ kruns = 0
    /\ kfile1 = <<>>

agVars == <<agstage, ret_scripts, verdict_scripts>>

AgIdle ==
    /\ agstage = "none"
    /\ ret_scripts = -1
    /\ verdict_scripts = "none"

\* the variables of the smaller tools
auxVars == <<decVars, memVars, kcVars>>

AuxIdle == DecIdle /\ MemIdle /\ KcIdle

\* the variables the comparison routines never touch, and their values at rest
nonCmpVars == <<symVars, parseVars, cliVars, treeVars, auxVars, agVars>>

NonCmpIdle == SymIdle /\ ParseIdle /\ CliIdle /\ TreeIdle /\ AuxIdle /\ AgIdle

allVars == <<vars, nonCmpVars>>

----------------------------------------------------------------------------
(* Bounds of the model *)

MaxLen == 3
MaxLen3 == 2
LongLen == 11
MaxSyms == 3
MaxAddr == 3
MaxLines == 3
MaxCliLines == 2
PartnerLines == 1
MaxTrace == 4
BlankRun == 100
MaxLog == 3
MaxKLines == 3
MaxRuns == 2

(* Program constant: the mismatch cap *)
MaxMismatches == 10

Rec(p, w) == [pc |-> p, instr |-> w]

\* Three records: two share a pc and differ in instr, one differs in pc.
Recs == {Rec(0, 0), Rec(0, 1), Rec(1, 0)}

SeqsUpTo(S, n) == UNION {[1..k -> S] : k \in 0..n}

Min(a, b) == IF a <= b THEN a ELSE b

----------------------------------------------------------------------------
(* Python list indexing *)

InRange(s, k) == k >= -Len(s) /\ k < Len(s)

At(s, k) == IF k >= 0 THEN s[k + 1] ELSE s[Len(s) + k + 1]

----------------------------------------------------------------------------
(* Pieces of compare_traces / compare_three_way *)

IsEmptyInputAnd(t1, t2) == Len(t1) = 0 /\ Len(t2) = 0

\* len(traces1) == 0 or len(traces2) == 0
IsEmptyInput(t1, t2) == Len(t1) = 0 \/ Len(t2) = 0

RECURSIVE AlignOffsetLast(_, _, _)
AlignOffsetLast(traces, start, k) ==
    IF k >= Len(traces) THEN 0
    ELSE LET later == AlignOffsetLast(traces, start, k + 1)
         IN  IF later > 0 THEN later
             ELSE IF At(traces, k).pc = start THEN k ELSE 0

\* for i, entry in enumerate(traces): if entry['pc'] == start: offset = i; break
RECURSIVE AlignOffset(_, _, _)
AlignOffset(traces, start, k) ==
    IF k >= Len(traces) THEN 0
    ELSE IF At(traces, k).pc = start THEN k
    ELSE AlignOffset(traces, start, k + 1)

CannotAlignOffsetOnly(off, start, t2) == off = 0

\* trace2_offset == 0 and trace1_start_pc != traces2[0]['pc']
CannotAlign(off, start, t2) == off = 0 /\ start # At(t2, 0).pc

MaxCompareNoOffset(l1, l2, off) == Min(l1, l2)

\* min(len(traces1), len(traces2) - trace2_offset)
MaxCompare(l1, l2, off) == Min(l1, l2 - off)

\* min(len(rtl_traces), len(spike_traces) - spike_offset, len(rv32sim_traces) - rv32sim_offset)
MaxCompare3(l1, l2, o2, l3, o3) == Min(l1, Min(l2 - o2, l3 - o3))

DiffersPcOnly(t1, t2) == t1.pc # t2.pc

DiffersInstrVsPc(t1, t2) == t1.pc # t2.pc \/ t1.instr # t2.pc

\* t1['pc'] != t2['pc'] or t1['instr'] != t2['instr']
Differs(t1, t2) == t1.pc # t2.pc \/ t1.instr # t2.instr

AllMatchFirstPair(a, b, c) == a.pc = b.pc /\ a.instr = b.instr

\* rtl['pc'] == spike['pc'] == rv32['pc'] and rtl['instr'] == spike['instr'] == rv32['instr']
AllMatch(a, b, c) ==
    /\ a.pc = b.pc /\ b.pc = c.pc
    /\ a.instr = b.instr /\ b.instr = c.instr

CapReachedLate(m) == m > MaxMismatches

\* if mismatches >= 10: break
CapReached(m) == m >= MaxMismatches

EffectiveLenOneMore(l2, off) == l2 - off + 1

EffectiveLenNoOffset(l2, off) == l2

\* effective_trace2_len = len(traces2) - trace2_offset
EffectiveLen(l2, off) == l2 - off

RtlStartAlwaysZero(t1) == 0

\* rtl_start = rtl_traces[0]['pc'] if rtl_traces else 0
RtlStart(t1) == IF Len(t1) > 0 THEN At(t1, 0).pc ELSE 0

----------------------------------------------------------------------------
(* Initial states: the parsed streams handed to the routine *)

Fresh ==
    /\ pc = "start"
    /\ start_pc = 0
    /\ offset2 = 0
    /\ offset3 = 0
    /\ max_compare = 0
    /\ i = 0
    /\ mismatches = 0
    /\ reported = 0
    /\ cmpLog = <<>>
    /\ ret = -1
    /\ verdict = "none"
    /\ extra = 0
    /\ raised = FALSE

\* no comparison is running
CmpIdle ==
    /\ mode = "none"
    /\ traces1 = <<>>
    /\ traces2 = <<>>
    /\ traces3 = <<>>
    /\ Fresh

\* a stream of n equal records
Uniform(n) == [k \in 1..n |-> Rec(0, 0)]

\* as Uniform, but the instr differs from position s on, except at position g
Drifted(n, s, g) ==
    [k \in 1..n |-> IF k >= s /\ k # g THEN Rec(0, 1) ELSE Rec(0, 0)]

LongLens == (MaxMismatches - 1)..LongLen

InitSmall2 ==
    /\ mode \in {"scripts", "sim"}
    /\ traces1 \in SeqsUpTo(Recs, MaxLen)
    /\ traces2 \in SeqsUpTo(Recs, MaxLen)
    /\ traces3 = <<>>

InitSmall3 ==
    /\ mode = "three"
    /\ traces1 \in SeqsUpTo(Recs, MaxLen3)
    /\ traces2 \in SeqsUpTo(Recs, MaxLen3)
    /\ traces3 \in SeqsUpTo(Recs, MaxLen3)

InitLong ==
    /\ mode \in {"scripts", "sim", "three"}
    /\ \E n \in LongLens, m \in LongLens, s \in 1..2, g \in {0, 4} :
          /\ traces1 = Uniform(n)
          /\ traces2 = Drifted(m, s, g)
          /\ traces3 \in IF mode = "three"
                         THEN {Uniform(m), Drifted(n, s, g)}
                         ELSE {<<>>}

Init ==
    /\ InitSmall2 \/ InitSmall3 \/ InitLong
    /\ Fresh
    /\ NonCmpIdle

----------------------------------------------------------------------------
(* An exception escapes the routine *)

Raise ==
    /\ raised' = TRUE
    /\ pc' = "done"
    /\ UNCHANGED <<mode, traces1, traces2, traces3, start_pc, offset2, offset3,
                   max_compare, i, mismatches, reported, cmpLog, ret, verdict,
                   extra>>

Return(r, v, x) ==
    /\ ret' = r
    /\ verdict' = v
    /\ extra' = x
    /\ pc' = "done"

----------------------------------------------------------------------------
(* compare_traces *)

TwoWay == mode \in {"scripts", "sim"}

\* if len(traces1) == 0 or len(traces2) == 0: return 1
CheckEmpty ==
    /\ pc = "start"
    /\ UNCHANGED nonCmpVars
    /\ TwoWay
    /\ IF IsEmptyInput(traces1, traces2)
       THEN /\ Return(1, "EmptyInputFail", 0)
            /\ UNCHANGED <<start_pc>>
       ELSE /\ pc' = "align"
            /\ UNCHANGED <<ret, verdict, extra, start_pc>>
    /\ UNCHANGED <<mode, traces1, traces2, traces3, offset2, offset3,
                   max_compare, i, mismatches, reported, cmpLog, raised>>

\* scripts: trace1_start_pc = traces1[0]['pc']
\* sim:     rtl_start_pc = rtl_traces[0]['pc'] if len(rtl_traces) > 0 else 0
StartPc(m, t1) == IF m = "sim" /\ Len(t1) = 0 THEN 0 ELSE At(t1, 0).pc

\* the start pc, then the enumerate scan of traces2
Align ==
    /\ pc = "align"
    /\ UNCHANGED nonCmpVars
    /\ TwoWay
    /\ IF mode = "scripts" /\ ~InRange(traces1, 0)
       THEN Raise
       ELSE /\ start_pc' = StartPc(mode, traces1)
            /\ offset2' = AlignOffset(traces2, StartPc(mode, traces1), 0)
            /\ pc' = "aligncheck"
            /\ UNCHANGED <<mode, traces1, traces2, traces3, offset3,
                           max_compare, i, mismatches, reported, cmpLog, ret,
                           verdict, extra, raised>>

\* the "Cannot align traces" test, then mismatches = 0 and max_compare
AlignCheck ==
    /\ pc = "aligncheck"
    /\ UNCHANGED nonCmpVars
    /\ TwoWay
    /\ IF offset2 = 0 /\ ~InRange(traces2, 0)
       THEN Raise
       ELSE /\ IF CannotAlign(offset2, start_pc, traces2)
               THEN /\ Return(1, "AlignmentFail", 0)
                    /\ UNCHANGED <<max_compare, mismatches, i>>
               ELSE /\ mismatches' = 0
                    /\ max_compare' = MaxCompare(Len(traces1), Len(traces2), offset2)
                    /\ i' = 0
                    /\ pc' = "walk"
                    /\ UNCHANGED <<ret, verdict, extra>>
            /\ UNCHANGED <<mode, traces1, traces2, traces3, start_pc, offset2,
                           offset3, reported, cmpLog, raised>>

\* one iteration of: for i in range(max_compare)
Walk ==
    /\ pc = "walk"
    /\ UNCHANGED nonCmpVars
    /\ TwoWay
    /\ IF i >= max_compare
       THEN /\ pc' = "classify"
            /\ UNCHANGED <<mode, traces1, traces2, traces3, start_pc, offset2,
                           offset3, max_compare, i, mismatches, reported,
                           cmpLog, ret, verdict, extra, raised>>
       ELSE IF ~InRange(traces1, i) \/ ~InRange(traces2, i + offset2)
       THEN Raise
       ELSE LET t1 == At(traces1, i)
                t2 == At(traces2, i + offset2)
                d  == Differs(t1, t2)
                m  == IF d THEN mismatches + 1 ELSE mismatches
            IN  /\ cmpLog' = Append(cmpLog, <<i, i + offset2>>)
                /\ mismatches' = m
                /\ reported' = IF d THEN reported + 1 ELSE reported
                /\ IF d /\ CapReached(m)
                   THEN pc' = "classify" /\ i' = i
                   ELSE pc' = "walk" /\ i' = i + 1
                /\ UNCHANGED <<mode, traces1, traces2, traces3, start_pc,
                               offset2, offset3, max_compare, ret, verdict,
                               extra, raised>>

\* the PASS / FAIL branches after the walk
Classify ==
    /\ pc = "classify"
    /\ UNCHANGED nonCmpVars
    /\ TwoWay
    /\ LET eff == EffectiveLen(Len(traces2), offset2)
           l1  == Len(traces1)
       IN  IF mismatches = 0
           THEN IF l1 = eff
                THEN Return(0, "PerfectMatch", 0)
                ELSE IF l1 < eff
                THEN Return(0, "PartialMatchShorter", eff - l1)
                ELSE IF mode = "scripts"
                THEN Return(0, "PartialMatchLonger", l1 - eff)
                ELSE Return(1, "LengthMismatchFail", 0)
           ELSE Return(1, "MismatchFail", 0)
    /\ UNCHANGED <<mode, traces1, traces2, traces3, start_pc, offset2, offset3,
                   max_compare, i, mismatches, reported, cmpLog, raised>>

----------------------------------------------------------------------------
(* compare_three_way *)

\* rtl_start, the two enumerate scans, mismatches = 0 and max_compare
Align3 ==
    /\ pc = "start"
    /\ UNCHANGED nonCmpVars
    /\ mode = "three"
    /\ start_pc' = RtlStart(traces1)
    /\ offset2' = AlignOffset(traces2, RtlStart(traces1), 0)
    /\ offset3' = AlignOffset(traces3, RtlStart(traces1), 0)
    /\ mismatches' = 0
    /\ max_compare' = MaxCompare3(Len(traces1),
                                  Len(traces2), AlignOffset(traces2, RtlStart(traces1), 0),
                                  Len(traces3), AlignOffset(traces3, RtlStart(traces1), 0))
    /\ i' = 0
    /\ pc' = "walk"
    /\ UNCHANGED <<mode, traces1, traces2, traces3, reported, cmpLog, ret,
                   verdict, extra, raised>>

\* one iteration of: for i in range(max_compare)
Walk3 ==
    /\ pc = "walk"
    /\ UNCHANGED nonCmpVars
    /\ mode = "three"
    /\ IF i >= max_compare
       THEN /\ pc' = "classify"
            /\ UNCHANGED <<mode, traces1, traces2, traces3, start_pc, offset2,
                           offset3, max_compare, i, mismatches, reported,
                           cmpLog, ret, verdict, extra, raised>>
       ELSE IF \/ ~InRange(traces1, i)
               \/ ~InRange(traces2, i + offset2)
               \/ ~InRange(traces3, i + offset3)
       THEN Raise
       ELSE LET rtl   == At(traces1, i)
                spike == At(traces2, i + offset2)
                rv32  == At(traces3, i + offset3)
                d     == ~AllMatch(rtl, spike, rv32)
                m     == IF d THEN mismatches + 1 ELSE mismatches
            IN  /\ cmpLog' = Append(cmpLog, <<i, i + offset2, i + offset3>>)
                /\ mismatches' = m
                /\ reported' = IF d THEN reported + 1 ELSE reported
                /\ IF d /\ CapReached(m)
                   THEN pc' = "classify" /\ i' = i
                   ELSE pc' = "walk" /\ i' = i + 1
                /\ UNCHANGED <<mode, traces1, traces2, traces3, start_pc,
                               offset2, offset3, max_compare, ret, verdict,
                               extra, raised>>

\* if mismatches == 0: return 0 else: return 1
Verdict3 ==
    /\ pc = "classify"
    /\ UNCHANGED nonCmpVars
    /\ mode = "three"
    /\ IF mismatches = 0
       THEN Return(0, "Pass3", 0)
       ELSE Return(1, "Fail3", 0)
    /\ UNCHANGED <<mode, traces1, traces2, traces3, start_pc, offset2, offset3,
                   max_compare, i, mismatches, reported, cmpLog, raised>>

----------------------------------------------------------------------------

Next ==
    \/ CheckEmpty
    \/ Align
    \/ AlignCheck
    \/ Walk
    \/ Classify
    \/ Align3
    \/ Walk3
    \/ Verdict3

Spec == Init /\ [][Next]_allVars

----------------------------------------------------------------------------
(* addr_to_symbol (sim/parse_call_trace.py)                                *)
(* The table is what get_symbols_from_elf builds from `nm -n`: tuples      *)
(* (addr, name, sym_type) in ascending address order.  The returned string *)
(* "name" or "name+0x<offset>" is kept as [found, name, offset]; callers   *)
(* take the name back with split('+')[0].                                  *)

Sym(a, n, t) == [addr |-> a, name |-> n, type |-> t]

SymTypes == {"T", "w", "D"}

\* the i-th line of the nm listing names the i-th symbol
SymName(k) == <<"main", "foo", "bar", "baz", "qux">>[k]

\* sym_type in ['T', 't', 'W', 'w']
IsFunctionType(t) == t \in {"T", "t", "W", "w"}

BeatsBestOrEqual(sym_addr, addr, best_addr) == sym_addr <= addr /\ sym_addr >= best_addr

\* sym_addr <= addr and sym_addr > best_addr
BeatsBest(sym_addr, addr, best_addr) == sym_addr <= addr /\ sym_addr > best_addr

\* the for loop over symbols from index k on, carrying best_match / best_addr
\* (best_match "" stands for None)
RECURSIVE ScanSymbols(_, _, _, _, _)
ScanSymbols(syms, addr, k, best_match, best_addr) ==
    IF k > Len(syms) THEN [match |-> best_match, addr |-> best_addr]
    ELSE IF BeatsBest(syms[k].addr, addr, best_addr) /\ IsFunctionType(syms[k].type)
    THEN ScanSymbols(syms, addr, k + 1, syms[k].name, syms[k].addr)
    ELSE ScanSymbols(syms, addr, k + 1, best_match, best_addr)

\* def addr_to_symbol(addr, symbols)
addr_to_symbol(addr, syms) ==
    IF syms = <<>> THEN NoSymbol
    ELSE LET best == ScanSymbols(syms, addr, 1, "", 0)
         IN  IF best.match # ""
             THEN [found |-> TRUE, name |-> best.match,
                   offset |-> IF addr - best.addr > 0 THEN addr - best.addr ELSE 0]
             ELSE NoSymbol

SymbolsConsumed(syms) == IF syms = <<>> THEN syms ELSE Tail(syms)

\* the table after a lookup: addr_to_symbol only reads it
SymbolsAfterLookup(syms) == syms

SortedByAddr(syms) == \A k \in 1..(Len(syms) - 1) : syms[k].addr <= syms[k + 1].addr

SymTables ==
    {t \in UNION {[1..n -> [addr : 0..MaxAddr, type : SymTypes]] : n \in 0..MaxSyms} :
        SortedByAddr(t)}

InitSym ==
    /\ \E t \in SymTables :
          /\ symbols = [k \in 1..Len(t) |-> Sym(t[k].addr, SymName(k), t[k].type)]
          /\ symbols0 = [k \in 1..Len(t) |-> Sym(t[k].addr, SymName(k), t[k].type)]
    /\ q1 = -1
    /\ r1 = NoSymbol
    /\ q2 = -1
    /\ r2 = NoSymbol
    /\ CmpIdle
    /\ ParseIdle
    /\ CliIdle
    /\ TreeIdle
    /\ AuxIdle
    /\ AgIdle

\* one call func_name = addr_to_symbol(pc, symbols)
Lookup ==
    /\ \E a \in 0..MaxAddr :
          /\ q2' = a
          /\ r2' = addr_to_symbol(a, symbols)
    /\ q1' = q2
    /\ r1' = r2
    /\ symbols' = SymbolsAfterLookup(symbols)
    /\ UNCHANGED symbols0
    /\ UNCHANGED <<vars, parseVars, cliVars, treeVars, auxVars, agVars>>

NextSym == Lookup

SpecSym == InitSym /\ [][NextSym]_allVars

----------------------------------------------------------------------------
(* Trace text (scripts/trace_compare.py)                                   *)
(* A stripped line is the sequence of its whitespace-separated tokens.  A  *)
(* token is [k, d]: k says what the characters are, d holds the digits of  *)
(* a number token (most significant first).                                *)
(*   "dec"  decimal digits            "hex"  0x<hex digits>                *)
(*   "phex" (0x<hex digits>)          "core" the word core                 *)
(*   "id"   decimal digits and ':'    "hash" text starting with '#'        *)
(*   "word" any other text                                                 *)

Tok(k, d) == [k |-> k, d |-> d]

\* int(text) / int(text, 16): the digits in base b
RECURSIVE DigitsVal(_, _, _)
DigitsVal(d, b, acc) ==
    IF d = <<>> THEN acc ELSE DigitsVal(Tail(d), b, acc * b + Head(d))

\* int(x) and int(x, 16)
IntDec(t) == DigitsVal(t.d, 10, 0)

IntHex(t) == DigitsVal(t.d, 16, 0)

\* not line
IsBlank(line) == line = <<>>

\* line.startswith('#')
IsComment(line) == line # <<>> /\ line[1].k = "hash"

HasKinds(line, kinds) ==
    /\ Len(line) >= Len(kinds)
    /\ \A n \in 1..Len(kinds) : line[n].k = kinds[n]

MatchRtlWholeLine(line) == Len(line) = 3 /\ HasKinds(line, <<"dec", "hex", "phex">>)

\* re.match(r'(\d+)\s+0x([0-9a-fA-F]+)\s+\(0x([0-9a-fA-F]+)\)', line)
MatchRtl(line) == HasKinds(line, <<"dec", "hex", "phex">>)

\* re.match(r'core\s+\d+:\s+0x([0-9a-fA-F]+)\s+\(0x([0-9a-fA-F]+)\)', line)
MatchSpikeL(line) == HasKinds(line, <<"core", "id", "hex", "phex">>)

\* re.match(r'core\s+\d+:\s+\d+\s+0x([0-9a-fA-F]+)\s+\(0x([0-9a-fA-F]+)\)', line)
MatchSpikeCommit(line) == HasKinds(line, <<"core", "id", "dec", "hex", "phex">>)

\* one pass of the loop body of parse_rtl_trace: the records it appends
ParseRtlLine(line) ==
    IF IsBlank(line) \/ IsComment(line) THEN <<>>
    ELSE IF MatchRtl(line)
    THEN <<[cycle |-> IntDec(line[1]), pc |-> IntHex(line[2]),
            instr |-> IntHex(line[3]), line |-> line]>>
    ELSE <<>>

\* one pass of the loop body of parse_spike_trace: the records it appends
ParseSpikeLine(line) ==
    IF IsBlank(line) THEN <<>>
    ELSE IF MatchSpikeL(line)
    THEN <<[pc |-> IntHex(line[3]), instr |-> IntHex(line[4]), line |-> line]>>
    ELSE IF MatchSpikeCommit(line)
    THEN <<[pc |-> IntHex(line[4]), instr |-> IntHex(line[5]), line |-> line]>>
    ELSE <<>>

\* the lines the model feeds the tools
LineMenu ==
    { <<>>,
      <<Tok("hash", <<>>), Tok("word", <<>>)>>,
      <<Tok("dec", <<7>>), Tok("hex", <<8, 0>>), Tok("phex", <<2, 9>>)>>,
      <<Tok("dec", <<1, 2>>), Tok("hex", <<8, 4>>), Tok("phex", <<15, 3>>),
        Tok("word", <<>>), Tok("hex", <<1>>)>>,
      <<Tok("core", <<>>), Tok("id", <<0>>), Tok("hex", <<8, 0>>), Tok("phex", <<2, 9>>),
        Tok("word", <<>>)>>,
      <<Tok("core", <<>>), Tok("id", <<0>>), Tok("dec", <<3>>), Tok("hex", <<8, 4>>),
        Tok("phex", <<15, 3>>)>>,
      <<Tok("dec", <<7>>), Tok("word", <<>>)>>,
      <<Tok("core", <<>>), Tok("word", <<>>)>>,
      <<Tok("word", <<>>), Tok("hex", <<8, 0>>), Tok("phex", <<2, 9>>)>> }

Files(n) == UNION {[1..k -> LineMenu] : k \in 0..n}

InitParse ==
    /\ pparser \in {"rtl", "spike"}
    /\ pfile \in Files(MaxLines)
    /\ pidx = 1
    /\ ptraces = <<>>
    /\ CmpIdle
    /\ SymIdle
    /\ CliIdle
    /\ TreeIdle
    /\ AuxIdle
    /\ AgIdle

\* parse_rtl_trace: one iteration of for line in f
ParseRtlStep ==
    /\ pparser = "rtl"
    /\ pidx <= Len(pfile)
    /\ ptraces' = ptraces \o ParseRtlLine(pfile[pidx])
    /\ pidx' = pidx + 1
    /\ UNCHANGED <<pparser, pfile>>
    /\ UNCHANGED <<vars, symVars, cliVars, treeVars, auxVars, agVars>>

\* parse_spike_trace: one iteration of for line in f
ParseSpikeStep ==
    /\ pparser = "spike"
    /\ pidx <= Len(pfile)
    /\ ptraces' = ptraces \o ParseSpikeLine(pfile[pidx])
    /\ pidx' = pidx + 1
    /\ UNCHANGED <<pparser, pfile>>
    /\ UNCHANGED <<vars, symVars, cliVars, treeVars, auxVars, agVars>>

NextParse == ParseRtlStep \/ ParseSpikeStep

SpecParse == InitParse /\ [][NextParse]_allVars

----------------------------------------------------------------------------
(* detect_trace_type and the two-file mode of main (scripts/trace_compare.py) *)

\* re.match(r'^core\s+\d+:', line)
MatchCoreId(line) == HasKinds(line, <<"core", "id">>)

\* detect_trace_type, had it judged the first line that is not blank or comment
DetectLineFirstOnly(line) ==
    IF IsBlank(line) \/ IsComment(line) THEN "next"
    ELSE IF MatchRtl(line) THEN "rtl"
    ELSE IF MatchCoreId(line) THEN "spike"
    ELSE "unknown"

\* one pass of the loop body of detect_trace_type: the value returned, or
\* "next" when the loop goes on to the next line
DetectLine(line) ==
    IF IsBlank(line) \/ IsComment(line) THEN "next"
    ELSE IF MatchRtl(line) THEN "rtl"
    ELSE IF MatchCoreId(line) THEN "spike"
    ELSE "next"

RECURSIVE ParseLines(_, _, _)
ParseLines(parser, file, k) ==
    IF k > Len(file) THEN <<>>
    ELSE (IF parser = "rtl" THEN ParseRtlLine(file[k]) ELSE ParseSpikeLine(file[k]))
         \o ParseLines(parser, file, k + 1)

parse_rtl_trace(file) == ParseLines("rtl", file, 1)

parse_spike_trace(file) == ParseLines("spike", file, 1)

InitCli ==
    /\ \/ cfile1 \in Files(MaxCliLines) /\ cfile2 \in Files(PartnerLines)
       \/ cfile1 \in Files(PartnerLines) /\ cfile2 \in Files(MaxCliLines)
    /\ cpc = "detect1"
    /\ cidx = 1
    /\ type1 = ""
    /\ type2 = ""
    /\ ctraces1 = <<>>
    /\ ctraces2 = <<>>
    /\ cexit = -1
    /\ CmpIdle
    /\ SymIdle
    /\ ParseIdle
    /\ TreeIdle
    /\ AuxIdle
    /\ AgIdle

\* type1 = detect_trace_type(args.trace1): one iteration of its loop, or its
\* return after the loop
Detect1 ==
    /\ cpc = "detect1"
    /\ IF cidx > Len(cfile1)
       THEN type1' = "unknown" /\ cpc' = "detect2" /\ cidx' = 1
       ELSE IF DetectLine(cfile1[cidx]) = "next"
       THEN cidx' = cidx + 1 /\ UNCHANGED <<type1, cpc>>
       ELSE type1' = DetectLine(cfile1[cidx]) /\ cpc' = "detect2" /\ cidx' = 1
    /\ UNCHANGED <<cfile1, cfile2, type2, ctraces1, ctraces2, cexit>>
    /\ UNCHANGED <<vars, symVars, parseVars, treeVars, auxVars, agVars>>

\* type2 = detect_trace_type(args.trace2)
Detect2 ==
    /\ cpc = "detect2"
    /\ IF cidx > Len(cfile2)
       THEN type2' = "unknown" /\ cpc' = "parse1" /\ cidx' = 1
       ELSE IF DetectLine(cfile2[cidx]) = "next"
       THEN cidx' = cidx + 1 /\ UNCHANGED <<type2, cpc>>
       ELSE type2' = DetectLine(cfile2[cidx]) /\ cpc' = "parse1" /\ cidx' = 1
    /\ UNCHANGED <<cfile1, cfile2, type1, ctraces1, ctraces2, cexit>>
    /\ UNCHANGED <<vars, symVars, parseVars, treeVars, auxVars, agVars>>

\* if type1 == 'rtl': ... elif type1 == 'spike': ... else: sys.exit(1)
Parse1 ==
    /\ cpc = "parse1"
    /\ IF type1 = "rtl"
       THEN ctraces1' = parse_rtl_trace(cfile1) /\ cpc' = "parse2" /\ UNCHANGED cexit
       ELSE IF type1 = "spike"
       THEN ctraces1' = parse_spike_trace(cfile1) /\ cpc' = "parse2" /\ UNCHANGED cexit
       ELSE cexit' = 1 /\ cpc' = "exit" /\ UNCHANGED ctraces1
    /\ UNCHANGED <<cfile1, cfile2, cidx, type1, type2, ctraces2>>
    /\ UNCHANGED <<vars, symVars, parseVars, treeVars, auxVars, agVars>>

\* if type2 == 'rtl': ... elif type2 == 'spike': ... else: sys.exit(1)
Parse2 ==
    /\ cpc = "parse2"
    /\ IF type2 = "rtl"
       THEN ctraces2' = parse_rtl_trace(cfile2) /\ cpc' = "compare" /\ UNCHANGED cexit
       ELSE IF type2 = "spike"
       THEN ctraces2' = parse_spike_trace(cfile2) /\ cpc' = "compare" /\ UNCHANGED cexit
       ELSE cexit' = 1 /\ cpc' = "exit" /\ UNCHANGED ctraces2
    /\ UNCHANGED <<cfile1, cfile2, cidx, type1, type2, ctraces1>>
    /\ UNCHANGED <<vars, symVars, parseVars, treeVars, auxVars, agVars>>

\* result = compare_traces(traces1, traces2, name1, name2): the call
CallCompare ==
    /\ cpc = "compare"
    /\ cpc' = "running"
    /\ mode' = "scripts"
    /\ traces1' = ctraces1
    /\ traces2' = ctraces2
    /\ UNCHANGED <<traces3, pc, start_pc, offset2, offset3, max_compare, i,
                   mismatches, reported, cmpLog, ret, verdict, extra, raised>>
    /\ UNCHANGED <<cfile1, cfile2, cidx, type1, type2, ctraces1, ctraces2, cexit>>
    /\ UNCHANGED <<symVars, parseVars, treeVars, auxVars, agVars>>

\* sys.exit(result); an exception is caught by main, which exits with 1
ExitResult ==
    /\ cpc = "running"
    /\ pc = "done"
    /\ cexit' = (IF raised THEN 1 ELSE ret)
    /\ cpc' = "exit"
    /\ UNCHANGED <<cfile1, cfile2, cidx, type1, type2, ctraces1, ctraces2>>
    /\ UNCHANGED <<vars, symVars, parseVars, treeVars, auxVars, agVars>>

NextCli ==
    \/ Detect1
    \/ Detect2
    \/ Parse1
    \/ Parse2
    \/ CallCompare
    \/ CheckEmpty
    \/ Align
    \/ AlignCheck
    \/ Walk
    \/ Classify
    \/ ExitResult

SpecCli == InitCli /\ [][NextCli]_allVars

----------------------------------------------------------------------------
(* parse_rtl_trace_tree (sim/parse_call_trace.py)                          *)
(* Further token kinds of a trace line:                                    *)
(*   "x1"   the word x1 between blanks     "semi" the ';' of a comment     *)
(*   "jal" "jalr" "ret"  the mnemonic after the ';'                        *)
(*   "tgt"  <name>, d = <<k>> with name SymName(k)                         *)

Entry(text, rep) == [text |-> text, rep |-> rep]

\* trace_format: the first line that is not empty decides
DetectTreeFormat(file) ==
    LET first == {n \in 1..Len(file) : file[n].text # <<>>}
    IN  IF first = {} THEN "rtl"
        ELSE LET n == CHOOSE m \in first : \A o \in first : m <= o
             IN  IF file[n].text[1].k = "core" THEN "spike" ELSE "rtl"

\* int(parts[n], 16) succeeds on 0x<hex> and on bare digits
IsHexText(t) == t.k \in {"hex", "dec"}

\* pc of the record, -1 for None and for the lines the loop leaves by continue
TreePc(fmt, parts) ==
    IF fmt = "spike"
    THEN IF Len(parts) >= 4 /\ parts[1].k = "core"
         THEN IF IsHexText(parts[4]) THEN IntHex(parts[4]) ELSE -1
         ELSE -1
    ELSE IF parts[2].k = "hex" THEN IntHex(parts[2]) ELSE -1

\* instr, -1 for None
TreeInstr(fmt, parts) ==
    LET instr_idx == IF fmt = "spike" THEN 5 ELSE 3
    IN  IF Len(parts) >= instr_idx /\ parts[instr_idx].k = "phex"
        THEN IntHex(parts[instr_idx])
        ELSE -1

\* ' x1 ' in line
HasX1(line) == \E n \in 2..(Len(line) - 1) : line[n].k = "x1"

\* '; jal ' in line_lower
HasJal(line) == \E n \in 1..(Len(line) - 2) : line[n].k = "semi" /\ line[n + 1].k = "jal"

\* '; jalr' in line_lower
HasJalr(line) == \E n \in 1..(Len(line) - 1) : line[n].k = "semi" /\ line[n + 1].k = "jalr"

\* '; ret' in line_lower
HasRet(line) == \E n \in 1..(Len(line) - 1) : line[n].k = "semi" /\ line[n + 1].k = "ret"

\* 'x0' in line_lower: the register name, or a hex literal with a leading 0 digit
HasX0(line) ==
    \E n \in 1..Len(line) :
        \/ line[n].k = "x0"
        \/ line[n].k \in {"hex", "phex"} /\ line[n].d # <<>> /\ line[n].d[1] = 0

\* instr & 0x7F, (instr >> 7) & 0x1F, (instr >> 15) & 0x1F
Opcode(instr) == instr % 128

RdFieldWide(instr) == instr \div 128

RdField(instr) == (instr \div 128) % 32

Rs1FieldWide(instr) == instr \div 32768

Rs1Field(instr) == (instr \div 32768) % 32

\* is_call
IsCall(line, instr) ==
    IF HasJal(line) /\ HasX1(line) THEN TRUE
    ELSE IF HasJalr(line) /\ HasX1(line) THEN TRUE
    ELSE IF instr # -1
    THEN (Opcode(instr) = 111 \/ Opcode(instr) = 103) /\ RdField(instr) = 1
    ELSE FALSE

\* is_return
IsReturn(line, instr) ==
    IF HasRet(line) THEN TRUE
    ELSE IF HasJalr(line) /\ HasX0(line) THEN TRUE
    ELSE IF instr # -1
    THEN Opcode(instr) = 103 /\ RdField(instr) = 0 /\ Rs1Field(instr) = 1
    ELSE FALSE

TargetNone(line) == ""

\* target_func from re.search(r'<([^>]+)>', line), "" for None
Target(line) ==
    LET at == {n \in 1..Len(line) : line[n].k = "tgt"}
    IN  IF at = {} THEN ""
        ELSE SymName(line[CHOOSE n \in at : \A m \in at : n <= m].d[1])

\* get_stack_frame_size on the ELF of the run, -1 for None
get_stack_frame_size(func_name) ==
    IF func_name = "foo" THEN 16 ELSE IF func_name = "bar" THEN -1 ELSE 32

\* stack_size_cache after: if target_func not in stack_size_cache: ... = get_stack_frame_size(...)
CacheWith(cache, target_func) ==
    IF target_func \in DOMAIN cache THEN cache
    ELSE [n \in DOMAIN cache \cup {target_func} |->
             IF n = target_func THEN get_stack_frame_size(target_func) ELSE cache[n]]

ScansWithRescanNone(cache, sc, target_func) ==
    IF target_func \in DOMAIN cache /\ cache[target_func] # -1 THEN sc ELSE Append(sc, target_func)

ScansWith(cache, sc, target_func) ==
    IF target_func \in DOMAIN cache THEN sc ELSE Append(sc, target_func)

Frame(name, entry_pc, line, stack_size, pending) ==
    [name |-> name, entry_pc |-> entry_pc, line |-> line,
     stack_size |-> stack_size, pending |-> pending]

\* an element of tree_output; text is target_func and the frame size shown (0: none)
Node(line, pcv, target_func, stack_size, depth) ==
    [line |-> line, pc |-> pcv, indent |-> 2 * depth,
     text |-> <<target_func, IF stack_size > 0 THEN stack_size ELSE 0>>,
     depth |-> depth]

\* (depth, target_func, line // 100)
CallKey(depth, target_func, line) == <<depth, target_func, line \div 100>>

KeySeenNever(call_key, seen) == FALSE

\* not (call_key not in seen_calls)
KeySeen(call_key, seen) == call_key \in seen

PendingInAnyFormat(target_func, fmt) == target_func = ""

\* not target_func and trace_format == 'spike'
PushesPending(target_func, fmt) == target_func = "" /\ fmt = "spike"

ShouldPopNonEmpty(is_return, stack) == Len(stack) > 0

\* is_return and len(call_stack) > 0
ShouldPop(is_return, stack) == is_return /\ Len(stack) > 0

PopAll(stack) == <<>>

\* call_stack.pop()
PopFrame(stack) == SubSeq(stack, 1, Len(stack) - 1)

Top(stack) == stack[Len(stack)]

\* the symbol table of the run, as nm -n prints it
TreeSymbols == <<Sym(16, "main", "T"), Sym(32, "foo", "T"), Sym(48, "bar", "t")>>

Dc(d) == Tok("dec", d)

Hx(d) == Tok("hex", d)

Px(d) == Tok("phex", d)

Kw(k) == Tok(k, <<>>)

\* lines of a cycle-log trace: pc 0x4 is below every symbol, 0x10 is main,
\* 0x20 and 0x24 are in foo; 0xef is jal x1, 0x00e7 jalr x1, 0x8067 ret, 0x13 addi
RtlMenu ==
    { Entry(<<Dc(<<5>>), Hx(<<1, 0>>), Px(<<14, 15>>), Kw("x1"), Hx(<<1, 4>>),
              Kw("semi"), Kw("jal"), Kw("word"), Tok("tgt", <<2>>)>>, 1),
      Entry(<<Dc(<<6>>), Hx(<<2, 0>>), Px(<<14, 15>>), Kw("x1"), Hx(<<2, 4>>),
              Kw("semi"), Kw("jal"), Kw("word"), Tok("tgt", <<3>>)>>, 1),
      Entry(<<Dc(<<7>>), Hx(<<2, 4>>), Px(<<8, 0, 6, 7>>), Kw("semi"), Kw("ret")>>, 1),
      Entry(<<Dc(<<8>>), Hx(<<4>>), Px(<<1, 3>>)>>, 1),
      Entry(<<Dc(<<9>>), Hx(<<4>>), Px(<<8, 0, 6, 7>>), Kw("semi"), Kw("ret")>>, 1),
      Entry(<<Dc(<<5>>), Hx(<<1, 0>>), Px(<<14, 15>>)>>, 1),
      Entry(<<Dc(<<5>>), Hx(<<1, 0>>), Px(<<0, 0, 14, 7>>), Kw("x1"), Hx(<<1, 4>>),
              Kw("semi"), Kw("jalr"), Kw("word"), Tok("tgt", <<2>>)>>, 1),
      Entry(<<>>, BlankRun) }

\* lines of a commit-log trace
SpikeMenu ==
    { Entry(<<Kw("core"), Tok("id", <<0>>), Dc(<<3>>), Hx(<<1, 0>>), Px(<<14, 15>>)>>, 1),
      Entry(<<Kw("core"), Tok("id", <<0>>), Dc(<<3>>), Hx(<<2, 0>>), Px(<<1, 3>>)>>, 1),
      Entry(<<Kw("core"), Tok("id", <<0>>), Dc(<<3>>), Hx(<<2, 4>>), Px(<<8, 0, 6, 7>>)>>, 1),
      Entry(<<Kw("core"), Tok("id", <<0>>), Dc(<<3>>), Hx(<<4>>), Px(<<1, 3>>)>>, 1),
      Entry(<<Kw("core"), Tok("id", <<0>>), Dc(<<3>>), Hx(<<2, 0>>), Px(<<14, 15>>)>>, 1),
      Entry(<<Kw("core"), Tok("id", <<0>>), Dc(<<3>>), Hx(<<4>>), Px(<<14, 15>>)>>, 1),
      Entry(<<Kw("core"), Tok("id", <<0>>), Hx(<<1, 0>>), Px(<<14, 15>>), Kw("word")>>, 1),
      Entry(<<>>, BlankRun) }

TraceFiles(menu) == UNION {[1..k -> menu] : k \in 0..MaxTrace}

InitTree ==
    /\ \/ tfile \in TraceFiles(RtlMenu)
       \/ tfile \in TraceFiles(SpikeMenu)
    /\ tphase = "detect"
    /\ trace_format = ""
    /\ tidx = 1
    /\ line_num = 0
    /\ call_stack = <<>>
    /\ tree_output = <<>>
    /\ seen_calls = {}
    /\ stack_size_cache = <<>>
    /\ scans = <<>>
    /\ traised = FALSE
    /\ nCalls = 0
    /\ nRets = 0
    /\ nPush = 0
    /\ nPop = 0
    /\ symbols = TreeSymbols
    /\ symbols0 = TreeSymbols
    /\ q1 = -1
    /\ r1 = NoSymbol
    /\ q2 = -1
    /\ r2 = NoSymbol
    /\ CmpIdle
    /\ ParseIdle
    /\ CliIdle
    /\ AuxIdle
    /\ AgIdle

\* the first pass over the file, which sets trace_format
DetectFormat ==
    /\ tphase = "detect"
    /\ trace_format' = DetectTreeFormat(tfile)
    /\ tphase' = "read"
    /\ UNCHANGED <<tfile, tidx, line_num, call_stack, tree_output, seen_calls,
                   stack_size_cache, scans, traised, nCalls, nRets, nPush, nPop>>
    /\ UNCHANGED <<vars, symVars, parseVars, cliVars, auxVars, agVars>>

\* the record the loop handles: its line, pc, instr, is_call, is_return, func_name
CurText == tfile[tidx].text

CurPc == IF Len(CurText) < 2 THEN -1 ELSE TreePc(trace_format, CurText)

CurInstr == TreeInstr(trace_format, CurText)

CurIsCall == IsCall(CurText, CurInstr)

CurIsReturn == IsReturn(CurText, CurInstr)

CurFunc == addr_to_symbol(CurPc, symbols)

\* the loop body up to and including the resolution of a pending call; a line
\* left by continue (a run of them, for blank lines) ends the iteration here
ReadRecord ==
    /\ tphase = "read"
    /\ tidx <= Len(tfile)
    /\ line_num' = line_num + tfile[tidx].rep
    /\ IF CurPc = -1
       THEN /\ tidx' = tidx + 1
            /\ UNCHANGED <<tphase, call_stack, tree_output, seen_calls,
                           stack_size_cache, scans, nCalls, nRets>>
       ELSE /\ tphase' = "update"
            /\ nCalls' = nCalls + (IF CurIsCall THEN 1 ELSE 0)
            /\ nRets' = nRets + (IF CurIsReturn THEN 1 ELSE 0)
            /\ UNCHANGED tidx
            /\ IF call_stack # <<>> /\ Top(call_stack).pending /\ CurFunc.found
               THEN LET pending_call == Top(call_stack)
                        target_func == CurFunc.name
                        cache == CacheWith(stack_size_cache, target_func)
                        depth == Len(call_stack) - 1
                        call_key == CallKey(depth, target_func, pending_call.line)
                    IN  /\ stack_size_cache' = cache
                        /\ scans' = ScansWith(stack_size_cache, scans, target_func)
                        /\ call_stack' =
                              [call_stack EXCEPT ![Len(call_stack)] =
                                  Frame(target_func, pending_call.entry_pc,
                                        pending_call.line, cache[target_func], FALSE)]
                        /\ IF ~KeySeen(call_key, seen_calls)
                           THEN /\ seen_calls' = seen_calls \cup {call_key}
                                /\ tree_output' =
                                      Append(tree_output,
                                             Node(pending_call.line, pending_call.entry_pc,
                                                  target_func, cache[target_func], depth))
                           ELSE UNCHANGED <<seen_calls, tree_output>>
               ELSE UNCHANGED <<call_stack, tree_output, seen_calls,
                                stack_size_cache, scans>>
    /\ UNCHANGED <<tfile, trace_format, traised, nPush, nPop>>
    /\ UNCHANGED <<vars, symVars, parseVars, cliVars, auxVars, agVars>>

\* the rest of the loop body: if func_name: push on a call, pop on a return
UpdateStack ==
    /\ tphase = "update"
    /\ tphase' = "read"
    /\ tidx' = tidx + 1
    /\ IF CurFunc.found /\ CurIsCall
       THEN LET target_func == Target(CurText)
            IN  IF PushesPending(target_func, trace_format)
                THEN /\ call_stack' =
                           Append(call_stack, Frame("", CurPc, line_num, -1, TRUE))
                     /\ UNCHANGED <<tree_output, seen_calls, stack_size_cache, scans>>
                ELSE IF target_func # ""
                THEN LET cache == CacheWith(stack_size_cache, target_func)
                         call_key == CallKey(Len(call_stack), target_func, line_num)
                     IN  /\ stack_size_cache' = cache
                         /\ scans' = ScansWith(stack_size_cache, scans, target_func)
                         /\ IF ~KeySeen(call_key, seen_calls)
                            THEN /\ seen_calls' = seen_calls \cup {call_key}
                                 /\ call_stack' =
                                       Append(call_stack,
                                              Frame(target_func, CurPc, line_num,
                                                    cache[target_func], FALSE))
                                 /\ tree_output' =
                                       Append(tree_output,
                                              Node(line_num, CurPc, target_func,
                                                   cache[target_func], Len(call_stack)))
                            ELSE UNCHANGED <<seen_calls, call_stack, tree_output>>
                ELSE UNCHANGED <<call_stack, tree_output, seen_calls,
                                 stack_size_cache, scans>>
       ELSE IF CurFunc.found /\ ShouldPop(CurIsReturn, call_stack)
       THEN /\ call_stack' = PopFrame(call_stack)
            /\ UNCHANGED <<tree_output, seen_calls, stack_size_cache, scans>>
       ELSE UNCHANGED <<call_stack, tree_output, seen_calls, stack_size_cache, scans>>
    /\ nPush' = nPush + (IF CurIsCall /\ Len(call_stack') = Len(call_stack) + 1
                         THEN 1 ELSE 0)
    /\ nPop' = nPop + (IF CurIsReturn /\ Len(call_stack') = Len(call_stack) - 1
                       THEN 1 ELSE 0)
    /\ UNCHANGED <<tfile, trace_format, line_num, traised, nCalls, nRets>>
    /\ UNCHANGED <<vars, symVars, parseVars, cliVars, auxVars, agVars>>

\* after the loop: print(f"Total lines processed: {line_num}") reads a name
\* that is unbound when the file has no line at all
Finish ==
    /\ tphase = "read"
    /\ tidx > Len(tfile)
    /\ tphase' = "done"
    /\ traised' = (line_num = 0)
    /\ UNCHANGED <<tfile, trace_format, tidx, line_num, call_stack, tree_output,
                   seen_calls, stack_size_cache, scans, nCalls, nRets, nPush, nPop>>
    /\ UNCHANGED <<vars, symVars, parseVars, cliVars, auxVars, agVars>>

NextTree == DetectFormat \/ ReadRecord \/ UpdateStack \/ Finish

SpecTree == InitTree /\ [][NextTree]_allVars

----------------------------------------------------------------------------
(* One call followed by one return, over several symbol tables             *)
(* (parse_rtl_trace_tree with addr_to_symbol)                              *)

\* symbol tables with foo at 0x20, as nm -n sorts them
ScenarioTables ==
    { <<Sym(32, "foo", "T")>>,
      <<Sym(16, "main", "T"), Sym(32, "foo", "T")>>,
      <<Sym(32, "foo", "T"), Sym(48, "bar", "t")>>,
      <<Sym(16, "main", "T"), Sym(32, "foo", "T"), Sym(48, "bar", "t")>>,
      <<Sym(0, "baz", "T"), Sym(32, "foo", "T")>>,
      <<Sym(0, "baz", "T"), Sym(16, "main", "T"), Sym(32, "foo", "T")>>,
      <<Sym(16, "main", "D"), Sym(32, "foo", "T")>>,
      <<Sym(8, "baz", "W"), Sym(16, "main", "D"), Sym(32, "foo", "T"), Sym(48, "bar", "t")>> }

\* a call at pc 0x10 to foo: jal with annotation, jalr with annotation, bare opcode
RtlCalls ==
    { Entry(<<Dc(<<5>>), Hx(<<1, 0>>), Px(<<14, 15>>), Kw("x1"), Hx(<<1, 4>>),
              Kw("semi"), Kw("jal"), Kw("word"), Tok("tgt", <<2>>)>>, 1),
      Entry(<<Dc(<<5>>), Hx(<<1, 0>>), Px(<<0, 0, 14, 7>>), Kw("x1"), Hx(<<1, 4>>),
              Kw("semi"), Kw("jalr"), Kw("word"), Tok("tgt", <<2>>)>>, 1),
      Entry(<<Dc(<<5>>), Hx(<<1, 0>>), Px(<<14, 15>>)>>, 1) }

\* the return at pc 0x20, the entry of foo
RtlReturn == Entry(<<Dc(<<6>>), Hx(<<2, 0>>), Px(<<8, 0, 6, 7>>), Kw("semi"), Kw("ret")>>, 1)

SpikeCall ==
    Entry(<<Kw("core"), Tok("id", <<0>>), Dc(<<3>>), Hx(<<1, 0>>), Px(<<14, 15>>)>>, 1)

SpikeReturn ==
    Entry(<<Kw("core"), Tok("id", <<0>>), Dc(<<3>>), Hx(<<2, 0>>), Px(<<8, 0, 6, 7>>)>>, 1)

ScenarioTraces ==
    LET pairs == {<<c, RtlReturn>> : c \in RtlCalls} \cup {<<SpikeCall, SpikeReturn>>}
    IN  pairs \cup {<<Entry(<<>>, 1)>> \o t : t \in pairs}

InitScenario ==
    /\ tfile \in ScenarioTraces
    /\ symbols \in ScenarioTables
    /\ symbols0 = symbols
    /\ tphase = "detect"
    /\ trace_format = ""
    /\ tidx = 1
    /\ line_num = 0
    /\ call_stack = <<>>
    /\ tree_output = <<>>
    /\ seen_calls = {}
    /\ stack_size_cache = <<>>
    /\ scans = <<>>
    /\ traised = FALSE
    /\ nCalls = 0
    /\ nRets = 0
    /\ nPush = 0
    /\ nPop = 0
    /\ q1 = -1
    /\ r1 = NoSymbol
    /\ q2 = -1
    /\ r2 = NoSymbol
    /\ CmpIdle
    /\ ParseIdle
    /\ CliIdle
    /\ AuxIdle
    /\ AgIdle

SpecScenario == InitScenario /\ [][NextTree]_allVars

----------------------------------------------------------------------------
(* The call / return classification of one record                          *)
(* (parse_rtl_trace_tree, sim/parse_call_trace.py)                         *)

\* opcode words: jal, jalr, addi and branch opcodes with several rd, rs1 and
\* upper immediate bits
DecWords ==
    { opc + 128 * rd + 32768 * rs1 + 268435456 * imm :
        opc \in {111, 103, 19, 99}, rd \in {0, 1, 2, 31}, rs1 \in {0, 1, 5}, imm \in {0, 7} }

Pow16N(n) == <<1, 16, 256, 4096, 65536, 1048576, 16777216, 268435456>>[n + 1]

\* the eight hex digits a trace producer prints for a word
HexDigits(w) == [k \in 1..8 |-> (w \div Pow16N(8 - k)) % 16]

\* what follows the opcode on the line: a register write and a disassembly comment
RegWrites == { <<>>, <<Kw("x1"), Hx(<<1, 4>>)>> }

Annotations ==
    { <<>>,
      <<Kw("semi"), Kw("jal"), Kw("word"), Tok("tgt", <<2>>)>>,
      <<Kw("semi"), Kw("jalr"), Kw("word")>>,
      <<Kw("semi"), Kw("ret")>>,
      <<Kw("semi"), Kw("word"), Kw("word")>> }

\* the fields before the opcode
LineHead(fmt) ==
    IF fmt = "spike"
    THEN <<Kw("core"), Tok("id", <<0>>), Dc(<<3>>), Hx(<<1, 0>>)>>
    ELSE <<Dc(<<5>>), Hx(<<1, 0>>)>>

InitDecode ==
    /\ dfmt \in {"rtl", "spike"}
    /\ dw \in DecWords \cup {-1}
    /\ \E r \in RegWrites, a \in Annotations :
          dline = LineHead(dfmt)
                  \o (IF dw = -1 THEN <<Kw("word")>> ELSE <<Px(HexDigits(dw))>>)
                  \o r \o a
    /\ dstage = "line"
    /\ d_is_call = FALSE
    /\ d_is_return = FALSE
    /\ CmpIdle
    /\ SymIdle
    /\ ParseIdle
    /\ CliIdle
    /\ TreeIdle
    /\ MemIdle
    /\ KcIdle
    /\ AgIdle

\* instr, is_call and is_return of one loop iteration
ClassifyRecord ==
    /\ dstage = "line"
    /\ dstage' = "classified"
    /\ d_is_call' = IsCall(dline, TreeInstr(dfmt, dline))
    /\ d_is_return' = IsReturn(dline, TreeInstr(dfmt, dline))
    /\ UNCHANGED <<dfmt, dline, dw>>
    /\ UNCHANGED <<vars, symVars, parseVars, cliVars, treeVars, memVars, kcVars, agVars>>

NextDecode == ClassifyRecord

SpecDecode == InitDecode /\ [][NextDecode]_allVars

----------------------------------------------------------------------------
(* The memory-trace analyzer (sim/analyze_mem_trace.py)                    *)

\* a log line the three regular expressions sort by its bracketed tag; addr and
\* data are the hex texts after "0x"; tag "other" is a line none of them matches
LogLine(tag, addr, data) == [tag |-> tag, addr |-> addr, data |-> data]

LogMenu ==
    { LogLine("CPU_IMEM READ", "1000", "bb"),
      LogLine("CPU_DMEM READ", "1000", "aa"),
      LogLine("CPU_DMEM READ", "1000", "bb"),
      LogLine("CPU_DMEM WRITE", "1000", "aa"),
      LogLine("CPU_DMEM WRITE", "fffffff0", "aa"),
      LogLine("CPU_DMEM WRITE", "fffffff4", "aa"),
      LogLine("AXI_MEM READ", "1000", "aa"),
      LogLine("AXI_MEM READ", "1000", "bb"),
      LogLine("AXI_MEM WRITE", "1000", "aa"),
      LogLine("AXI_MEM WRITE", "1000", "bb"),
      LogLine("other", "", "") }

LogFiles == UNION {[1..k -> LogMenu] : k \in 0..MaxLog}

\* the (addr, data) tuples of the lines with one tag, in file order
Tagged(log, tag) ==
    LET sel == SelectSeq(log, LAMBDA l : l.tag = tag)
    IN  [n \in 1..Len(sel) |-> <<sel[n].addr, sel[n].data>>]

\* dict: addr -> list of data, in order of appearance
DictOf(txns) ==
    [a \in {txns[n][1] : n \in 1..Len(txns)} |->
        LET sel == SelectSeq(txns, LAMBDA t : t[1] = a)
        IN  [n \in 1..Len(sel) |-> sel[n][2]]]

Holds(dict, addr, data) ==
    addr \in DOMAIN dict /\ \E n \in 1..Len(dict[addr]) : dict[addr][n] = data

RemoveNone(list, x) == list

\* list.remove(x): drops the first occurrence
RemoveFirst(list, x) ==
    LET n == CHOOSE m \in 1..Len(list) :
                 list[m] = x /\ \A q \in 1..(m - 1) : list[q] # x
    IN  SubSeq(list, 1, n - 1) \o SubSeq(list, n + 1, Len(list))

RECURSIVE MatchFrom(_, _, _, _)
\* for addr, data in cpu: if addr in dict and data in dict[addr]: matches += 1; remove
MatchFrom(cpu, k, dict, matches) ==
    IF k > Len(cpu) THEN [dict |-> dict, matches |-> matches]
    ELSE IF Holds(dict, cpu[k][1], cpu[k][2])
         THEN MatchFrom(cpu, k + 1,
                        [dict EXCEPT ![cpu[k][1]] = RemoveFirst(@, cpu[k][2])],
                        matches + 1)
         ELSE MatchFrom(cpu, k + 1, dict, matches)

RECURSIVE SumLen(_, _)
SumLen(dict, addrs) ==
    IF addrs = {} THEN 0
    ELSE LET a == CHOOSE x \in addrs : TRUE
         IN  Len(dict[a]) + SumLen(dict, addrs \ {a})

magic_addrs == {"fffffff4", "fffffff0"}

cpu_dmem_writes_mem == SelectSeq(cpu_dmem_writes, LAMBDA t : t[1] \notin magic_addrs)

InitMem ==
    /\ mlog \in LogFiles
    /\ mfound \in BOOLEAN
    /\ (~mfound => mlog = <<>>)
    /\ mpc = "start"
    /\ cpu_imem_reads = <<>>
    /\ cpu_dmem_writes = <<>>
    /\ cpu_dmem_reads = <<>>
    /\ axi_writes = <<>>
    /\ axi_reads = <<>>
    /\ axi_read_dict = <<>>
    /\ axi_write_dict = <<>>
    /\ imem_matches = 0
    /\ imem_excess_axi = 0
    /\ dmem_read_matches = 0
    /\ dmem_write_matches = 0
    /\ mwarned = FALSE
    /\ mexit = -1
    /\ CmpIdle
    /\ SymIdle
    /\ ParseIdle
    /\ CliIdle
    /\ TreeIdle
    /\ DecIdle
    /\ KcIdle
    /\ AgIdle

memRest == <<vars, symVars, parseVars, cliVars, treeVars, decVars, kcVars, agVars>>

\* except FileNotFoundError: sys.exit(1)
LogMissing ==
    /\ mpc = "start"
    /\ ~mfound
    /\ mexit' = 1
    /\ mpc' = "done"
    /\ UNCHANGED <<mlog, mfound, cpu_imem_reads, cpu_dmem_writes, cpu_dmem_reads,
                   axi_writes, axi_reads, axi_read_dict, axi_write_dict, imem_matches,
                   imem_excess_axi, dmem_read_matches, dmem_write_matches, mwarned>>
    /\ UNCHANGED memRest

\* the parse loop and the two lookup dictionaries
ReadLog ==
    /\ mpc = "start"
    /\ mfound
    /\ cpu_imem_reads' = Tagged(mlog, "CPU_IMEM READ")
    /\ cpu_dmem_writes' = Tagged(mlog, "CPU_DMEM WRITE")
    /\ cpu_dmem_reads' = Tagged(mlog, "CPU_DMEM READ")
    /\ axi_writes' = Tagged(mlog, "AXI_MEM WRITE")
    /\ axi_reads' = Tagged(mlog, "AXI_MEM READ")
    /\ axi_read_dict' = DictOf(axi_reads')
    /\ axi_write_dict' = DictOf(axi_writes')
    /\ mpc' = "fetch"
    /\ UNCHANGED <<mlog, mfound, imem_matches, imem_excess_axi, dmem_read_matches,
                   dmem_write_matches, mwarned, mexit>>
    /\ UNCHANGED memRest

\* verify instruction fetches
VerifyFetch ==
    /\ mpc = "fetch"
    /\ LET r == MatchFrom(cpu_imem_reads, 1, axi_read_dict, 0)
       IN  /\ imem_matches' = r.matches
           /\ axi_read_dict' = r.dict
           /\ imem_excess_axi' = SumLen(r.dict, DOMAIN r.dict)
    /\ mpc' = "reads"
    /\ UNCHANGED <<mlog, mfound, cpu_imem_reads, cpu_dmem_writes, cpu_dmem_reads,
                   axi_writes, axi_reads, axi_write_dict, dmem_read_matches,
                   dmem_write_matches, mwarned, mexit>>
    /\ UNCHANGED memRest

\* verify data reads, on a rebuilt axi_read_dict
VerifyReads ==
    /\ mpc = "reads"
    /\ LET r == MatchFrom(cpu_dmem_reads, 1, DictOf(axi_reads), 0)
       IN  /\ dmem_read_matches' = r.matches
           /\ axi_read_dict' = r.dict
    /\ mpc' = "writes"
    /\ UNCHANGED <<mlog, mfound, cpu_imem_reads, cpu_dmem_writes, cpu_dmem_reads,
                   axi_writes, axi_reads, axi_write_dict, imem_matches, imem_excess_axi,
                   dmem_write_matches, mwarned, mexit>>
    /\ UNCHANGED memRest

\* verify data writes, the magic addresses left out
VerifyWrites ==
    /\ mpc = "writes"
    /\ LET r == MatchFrom(cpu_dmem_writes_mem, 1, axi_write_dict, 0)
       IN  /\ dmem_write_matches' = r.matches
           /\ axi_write_dict' = r.dict
    /\ mpc' = "summary"
    /\ UNCHANGED <<mlog, mfound, cpu_imem_reads, cpu_dmem_writes, cpu_dmem_reads,
                   axi_writes, axi_reads, axi_read_dict, imem_matches, imem_excess_axi,
                   dmem_read_matches, mwarned, mexit>>
    /\ UNCHANGED memRest

data_pass ==
    /\ dmem_read_matches = Len(cpu_dmem_reads)
    /\ dmem_write_matches = Len(cpu_dmem_writes_mem)

imem_pass == imem_matches = Len(cpu_imem_reads)

\* overall summary and sys.exit
Summary ==
    /\ mpc = "summary"
    /\ mexit' = IF data_pass THEN 0 ELSE 1
    /\ mwarned' = (data_pass /\ ~imem_pass)
    /\ mpc' = "done"
    /\ UNCHANGED <<mlog, mfound, cpu_imem_reads, cpu_dmem_writes, cpu_dmem_reads,
                   axi_writes, axi_reads, axi_read_dict, axi_write_dict, imem_matches,
                   imem_excess_axi, dmem_read_matches, dmem_write_matches>>
    /\ UNCHANGED memRest

NextMem ==
    \/ LogMissing
    \/ ReadLog
    \/ VerifyFetch
    \/ VerifyReads
    \/ VerifyWrites
    \/ Summary

SpecMem == InitMem /\ [][NextMem]_allVars

----------------------------------------------------------------------------
(* The two compare_traces (scripts/trace_compare.py, sim/trace_compare.py) *)
(* run one after the other on the same pair of parsed streams              *)

InitAgree ==
    /\ mode = "scripts"
    /\ traces1 \in SeqsUpTo(Recs, MaxLen)
    /\ traces2 \in SeqsUpTo(Recs, MaxLen)
    /\ traces3 = <<>>
    /\ Fresh
    /\ agstage = "scripts"
    /\ ret_scripts = -1
    /\ verdict_scripts = "none"
    /\ SymIdle
    /\ ParseIdle
    /\ CliIdle
    /\ TreeIdle
    /\ AuxIdle

\* the scripts routine has returned: keep its result and enter the sim routine
\* with the same traces
RunSim ==
    /\ agstage = "scripts"
    /\ pc = "done"
    /\ ret_scripts' = ret
    /\ verdict_scripts' = verdict
    /\ agstage' = "sim"
    /\ mode' = "sim"
    /\ pc' = "start"
    /\ start_pc' = 0
    /\ offset2' = 0
    /\ offset3' = 0
    /\ max_compare' = 0
    /\ i' = 0
    /\ mismatches' = 0
    /\ reported' = 0
    /\ cmpLog' = <<>>
    /\ ret' = -1
    /\ verdict' = "none"
    /\ extra' = 0
    /\ raised' = FALSE
    /\ UNCHANGED <<traces1, traces2, traces3>>
    /\ UNCHANGED <<symVars, parseVars, cliVars, treeVars, auxVars>>

NextAgree ==
    \/ CheckEmpty
    \/ Align
    \/ AlignCheck
    \/ Walk
    \/ Classify
    \/ RunSim

SpecAgree == InitAgree /\ [][NextAgree]_allVars

----------------------------------------------------------------------------
(* patch_kconfig (rtos/nuttx/scripts/patch_kconfig.py)                     *)

\* lines of a Kconfig file, without the newline
EspLine == "config ARCH_CHIP_ESP32C3_LEGACY"

Bl602DefaultLine == "\tdefault \"bl602\"\t\tif ARCH_CHIP_BL602"

Bl602SourceLine == "source \"arch/risc-v/src/bl602/Kconfig\""

KMenu == {EspLine, Bl602DefaultLine, Bl602SourceLine, "endif", "config ARCH_CHIP_KCORE"}

KFiles == UNION {[1..k -> KMenu] : k \in 0..MaxKLines}

kcore_lines ==
    <<"config ARCH_CHIP_KCORE", "\tbool \"KCORE\"", "\tselect ARCH_RV32",
      "\tselect ARCH_RV_ISA_M", "\tselect ARCH_RV_ISA_A", "\t---help---",
      "\t\tKCORE custom RISC-V processor", "">>

default_lines == <<"\tdefault \"kcore\"\t\t\tif ARCH_CHIP_KCORE">>

source_lines ==
    <<"if ARCH_CHIP_KCORE", "source \"arch/risc-v/src/kcore/Kconfig\"", "endif">>

\* 'CONFIG_ARCH_CHIP_KCORE' in line or 'config ARCH_CHIP_KCORE' in line, over the
\* lines a file here can hold
MarksPatched(line) == line = "config ARCH_CHIP_KCORE"

\* 'config ARCH_CHIP_ESP32C3_LEGACY' in line
IsEspLine(line) == line = EspLine

\* 'default "bl602"' in line and 'ARCH_CHIP_BL602' in line
IsBl602Default(line) == line = Bl602DefaultLine

\* 'source "arch/risc-v/src/bl602/Kconfig"' in line
IsBl602Source(line) == line = Bl602SourceLine

\* the 1-based positions of the lines that hold an anchor text
EspHits(ls) == {n \in 1..Len(ls) : IsEspLine(ls[n])}

Bl602DefaultHits(ls) == {n \in 1..Len(ls) : IsBl602Default(ls[n])}

Bl602SourceHits(ls) == {n \in 1..Len(ls) : IsBl602Source(ls[n])}

\* the enumerate scan with break: 0-based index of the first hit, -1 (None) if
\* there is none
FirstIndex(hits) ==
    IF hits = {} THEN -1 ELSE (CHOOSE n \in hits : \A m \in hits : n <= m) - 1

\* if insert_idx: -- None and 0 are both false
Truthy(insert_idx) == insert_idx # -1 /\ insert_idx # 0

\* lines[insert_idx:insert_idx] = new -- the slice clamps to len(lines)
InsertAt(ls, insert_idx, new) ==
    LET at == IF insert_idx > Len(ls) THEN Len(ls) ELSE insert_idx
    IN  SubSeq(ls, 1, at) \o new \o SubSeq(ls, at + 1, Len(ls))

InitKconfig ==
    /\ kfile \in KFiles
    /\ lines = <<>>
    /\ kpc = "start"
    /\ kruns = 0
    /\ kfile1 = <<>>
    /\ CmpIdle
    /\ SymIdle
    /\ ParseIdle
    /\ CliIdle
    /\ TreeIdle
    /\ DecIdle
    /\ MemIdle
    /\ AgIdle

kcRest == <<vars, symVars, parseVars, cliVars, treeVars, decVars, memVars, agVars>>

\* return True: the run is over, and the tool may be run again
EndRun ==
    /\ kruns' = kruns + 1
    /\ kfile1' = IF kruns = 0 THEN kfile' ELSE kfile1
    /\ kpc' = IF kruns + 1 < MaxRuns THEN "start" ELSE "done"

\* lines = f.readlines()
ReadLines ==
    /\ kpc = "start"
    /\ lines' = kfile
    /\ kpc' = "check"
    /\ UNCHANGED <<kfile, kruns, kfile1>>
    /\ UNCHANGED kcRest

\* check if already patched
CheckPatched ==
    /\ kpc = "check"
    /\ IF \E n \in 1..Len(lines) : MarksPatched(lines[n])
       THEN /\ UNCHANGED <<kfile, lines>>
            /\ EndRun
       ELSE /\ kpc' = "config"
            /\ UNCHANGED <<kfile, lines, kruns, kfile1>>
    /\ UNCHANGED kcRest

\* 1. insert KCORE config before ESP32C3_LEGACY
InsertConfig ==
    /\ kpc = "config"
    /\ LET insert_idx == FirstIndex(EspHits(lines))
       IN  lines' = IF Truthy(insert_idx)
                    THEN InsertAt(lines, insert_idx, kcore_lines)
                    ELSE lines
    /\ kpc' = "default"
    /\ UNCHANGED <<kfile, kruns, kfile1>>
    /\ UNCHANGED kcRest

\* 2. add default line after bl602
InsertDefault ==
    /\ kpc = "default"
    /\ LET found == FirstIndex(Bl602DefaultHits(lines))
           insert_idx == IF found = -1 THEN -1 ELSE found + 1
       IN  lines' = IF Truthy(insert_idx)
                    THEN InsertAt(lines, insert_idx, default_lines)
                    ELSE lines
    /\ kpc' = "source"
    /\ UNCHANGED <<kfile, kruns, kfile1>>
    /\ UNCHANGED kcRest

\* 3. add source statement after bl602
InsertSource ==
    /\ kpc = "source"
    /\ LET found == FirstIndex(Bl602SourceHits(lines))
           insert_idx == IF found = -1 THEN -1 ELSE found + 4
       IN  lines' = IF Truthy(insert_idx)
                    THEN InsertAt(lines, insert_idx, source_lines)
                    ELSE lines
    /\ kpc' = "write"
    /\ UNCHANGED <<kfile, kruns, kfile1>>
    /\ UNCHANGED kcRest

\* write patched file; return True
WriteFile ==
    /\ kpc = "write"
    /\ kfile' = lines
    /\ UNCHANGED lines
    /\ EndRun
    /\ UNCHANGED kcRest

NextKconfig ==
    \/ ReadLines
    \/ CheckPatched
    \/ InsertConfig
    \/ InsertDefault
    \/ InsertSource
    \/ WriteFile

SpecKconfig == InitKconfig /\ [][NextKconfig]_allVars

----------------------------------------------------------------------------
(* Reference notions the properties are stated with.  They are written     *)
(* from the statements, with 1-based TLA+ indexing, and do not use the     *)
(* operators above.                                                        *)

Done == pc = "done"

HasPc(t, p) == \E k \in 1..Len(t) : t[k].pc = p

\* smallest 0-based index of t whose pc is p (only used when HasPc(t, p))
FirstPc(t, p) ==
    CHOOSE j \in 0..(Len(t) - 1) :
        /\ t[j + 1].pc = p
        /\ \A k \in 1..j : t[k].pc # p

\* the three-way rule: first index with that pc, 0 when there is none
FirstPcOrZero(t, p) == IF HasPc(t, p) THEN FirstPc(t, p) ELSE 0

Smallest(S) == CHOOSE x \in S : \A y \in S : x <= y

\* 0-based positions of the common range of A and B at offset j that differ
DiffPositions2(j) ==
    {k \in 0..(Smallest({Len(traces1), Len(traces2) - j}) - 1) :
        traces1[k + 1] # traces2[k + j + 1]}

\* 0-based positions of the common range where the three records are not all equal
DiffPositions3(oB, oC) ==
    {k \in 0..(Smallest({Len(traces1), Len(traces2) - oB, Len(traces3) - oC}) - 1) :
        ~(traces1[k + 1] = traces2[k + oB + 1] /\ traces1[k + 1] = traces3[k + oC + 1])}

BothNonEmpty == traces1 # <<>> /\ traces2 # <<>>

\* two-way run whose alignment succeeds
Alignable == BothNonEmpty /\ HasPc(traces2, traces1[1].pc)

PivotOffset == FirstPc(traces2, traces1[1].pc)

RefPc == IF traces1 # <<>> THEN traces1[1].pc ELSE 0

\* number of differing positions of the aligned common range of the run
TrueMismatches ==
    IF mode = "three"
    THEN Cardinality(DiffPositions3(FirstPcOrZero(traces2, RefPc),
                                    FirstPcOrZero(traces3, RefPc)))
    ELSE Cardinality(DiffPositions2(PivotOffset))

\* the run reached the comparison walk and returned
Walked == Done /\ (mode = "three" \/ Alignable)

----------------------------------------------------------------------------
(* C1: two-way compare_traces with an empty A or an empty B returns 1 by   *)
(* the EmptyInputFail branch as its first and only step: no alignment scan *)
(* and no record comparison is performed.                                  *)
Thm_C1_EmptyInputFail ==
    (TwoWay /\ (traces1 = <<>> \/ traces2 = <<>>) /\ pc # "start") =>
        /\ pc = "done"
        /\ ret = 1
        /\ verdict = "EmptyInputFail"
        /\ cmpLog = <<>>
        /\ ~raised

Wit_C1_EmptyInputFail ==
    /\ TwoWay /\ Done
    /\ traces1 = <<>> /\ Len(traces2) >= 2
    /\ verdict = "EmptyInputFail"

(* C2: two-way, both streams non-empty and some record of B has A[0].pc:   *)
(* the offset used is the smallest such index j, and the walk compares     *)
(* A[i] with B[i + j] for i = 0, 1, ... in order, up to                    *)
(* min(len(A), len(B) - j) positions unless the walk ended at the cap.     *)
Thm_C2_FirstMatchOffset ==
    (TwoWay /\ Alignable /\ pc \in {"walk", "classify", "done"}) =>
        /\ offset2 = PivotOffset
        /\ cmpLog = [k \in 1..Len(cmpLog) |-> <<k - 1, k - 1 + PivotOffset>>]
        /\ (pc \in {"classify", "done"}) =>
              \/ Len(cmpLog) = Smallest({Len(traces1), Len(traces2) - PivotOffset})
              \/ mismatches = MaxMismatches

Wit_C2_FirstMatchOffset ==
    /\ TwoWay /\ Done /\ Alignable
    /\ PivotOffset = 1
    /\ HasPc(SubSeq(traces2, 3, Len(traces2)), traces1[1].pc)
    /\ Len(cmpLog) = 2

(* C3: two-way, both streams non-empty: the verdict is AlignmentFail       *)
(* (return 1, nothing compared) iff no record of B has pc A[0].pc.         *)
Thm_C3_AlignmentFailIff ==
    (TwoWay /\ BothNonEmpty /\ Done) =>
        /\ (verdict = "AlignmentFail") <=> ~HasPc(traces2, traces1[1].pc)
        /\ (verdict = "AlignmentFail") => (ret = 1 /\ cmpLog = <<>>)

Wit_C3_AlignmentFailIff ==
    /\ TwoWay /\ Done /\ BothNonEmpty
    /\ Len(traces2) >= 2
    /\ verdict = "AlignmentFail"

\* S[k..] has R[0].pc at k and agrees with R over the common length
IdenticalSuffixAt(k) ==
    /\ traces1 # <<>>
    /\ k \in 0..(Len(traces2) - 1)
    /\ traces2[k + 1].pc = traces1[1].pc
    /\ \A n \in 0..(Smallest({Len(traces1), Len(traces2) - k}) - 1) :
          traces1[n + 1] = traces2[n + k + 1]

(* C4 as stated: for every k at which S has R[0].pc with identical suffix, *)
(* whatever the prefix S[0..k-1] holds, the comparison uses offset k and   *)
(* counts zero mismatches.                                                 *)
Cex_C4_AnyPrefix ==
    (mode = "scripts" /\ Done) =>
        \A k \in 0..(Len(traces2) - 1) :
            IdenticalSuffixAt(k) => (offset2 = k /\ mismatches = 0)

(* C4 amended: the same, provided no record of the prefix S[0..k-1] has    *)
(* pc R[0].pc; the comparison then uses offset k, counts zero mismatches   *)
(* and passes.                                                             *)
Thm_C4_AlignmentCorrect ==
    (mode = "scripts" /\ Done) =>
        \A k \in 0..(Len(traces2) - 1) :
            (IdenticalSuffixAt(k) /\ ~HasPc(SubSeq(traces2, 1, k), traces1[1].pc)) =>
                (offset2 = k /\ mismatches = 0 /\ ret = 0)

Wit_C4_AlignmentCorrect ==
    /\ mode = "scripts" /\ Done
    /\ IdenticalSuffixAt(1)
    /\ ~HasPc(SubSeq(traces2, 1, 1), traces1[1].pc)
    /\ Len(traces1) = 2 /\ Len(traces2) = 3
    /\ traces1[2].instr = 1

Thm_C6_LengthVerdicts ==
    (mode = "scripts" /\ Done /\ Alignable /\ TrueMismatches = 0) =>
        LET rest == Len(traces2) - PivotOffset
        IN  /\ ret = 0
            /\ (Len(traces1) = rest) => verdict = "PerfectMatch"
            /\ (Len(traces1) < rest) => verdict = "PartialMatchShorter"
            /\ (Len(traces1) > rest) =>
                  (verdict = "PartialMatchLonger" /\ extra = Len(traces1) - rest)

Wit_C6_LengthVerdicts ==
    /\ mode = "scripts" /\ Done /\ Alignable
    /\ TrueMismatches = 0
    /\ PivotOffset = 1
    /\ verdict = "PartialMatchLonger"
    /\ extra = 2

(* C7: scripts compare_traces returns 0 iff both streams are non-empty,    *)
(* alignment succeeds and no position of the aligned common range differs, *)
(* whichever stream is longer; otherwise it returns 1.                     *)
Thm_C7_ExitStatus ==
    (mode = "scripts" /\ Done) =>
        /\ ret \in {0, 1}
        /\ (ret = 0) <=> (Alignable /\ TrueMismatches = 0)

Wit_C7_ExitStatus ==
    /\ mode = "scripts" /\ Done /\ Alignable
    /\ PivotOffset > 0
    /\ Len(traces1) > Len(traces2) - PivotOffset
    /\ \E k \in 1..Len(cmpLog) : traces1[k].instr = 1
    /\ ret = 0

(* C8: compare_three_way returns 0 iff at every position of the common     *)
(* prefix the three (pc, instr) tuples are equal, and 1 otherwise.         *)
Thm_C8_ThreeWayVerdict ==
    (mode = "three" /\ Done) =>
        /\ ret \in {0, 1}
        /\ (ret = 0) <=>
              DiffPositions3(FirstPcOrZero(traces2, RefPc),
                             FirstPcOrZero(traces3, RefPc)) = {}

Wit_C8_ThreeWayVerdict ==
    /\ mode = "three" /\ Done
    /\ ret = 1
    /\ Len(cmpLog) >= 1
    /\ \A k \in 1..Len(cmpLog) :
          traces1[cmpLog[k][1] + 1] = traces2[cmpLog[k][2] + 1]

(* C9: compare_three_way with a non-empty Ref aligns B and C each to its   *)
(* own first index with pc Ref[0].pc; a stream with no such record gets    *)
(* offset 0, nothing aborts, and the walk covers the whole common prefix   *)
(* (or ends at the cap) and returns a pass/fail value.                     *)
Thm_C9_ThreeWayAlignment ==
    (mode = "three" /\ traces1 # <<>> /\ pc # "start") =>
        LET oB == FirstPcOrZero(traces2, traces1[1].pc)
            oC == FirstPcOrZero(traces3, traces1[1].pc)
        IN  /\ offset2 = oB
            /\ offset3 = oC
            /\ ~raised
            /\ verdict # "AlignmentFail"
            /\ Done =>
                  /\ verdict \in {"Pass3", "Fail3"}
                  /\ \/ Len(cmpLog) = Smallest({Len(traces1), Len(traces2) - oB,
                                                Len(traces3) - oC})
                     \/ mismatches = MaxMismatches

Wit_C9_ThreeWayAlignment ==
    /\ mode = "three" /\ Done
    /\ traces1 # <<>> /\ traces2 # <<>>
    /\ ~HasPc(traces2, traces1[1].pc)
    /\ offset2 = 0
    /\ offset3 = 1
    /\ Len(cmpLog) = 1

(* C10: neither routine lets an exception escape, and every index the walk *)
(* reads lies inside its stream; a finished run has returned 0 or 1.       *)
Thm_C10_NoException ==
    /\ ~raised
    /\ Done => ret \in {0, 1}
    /\ \A k \in 1..Len(cmpLog) :
          /\ cmpLog[k][1] \in 0..(Len(traces1) - 1)
          /\ cmpLog[k][2] \in 0..(Len(traces2) - 1)
          /\ (mode = "three") => cmpLog[k][3] \in 0..(Len(traces3) - 1)

Wit_C10_NoException ==
    /\ TwoWay /\ Done
    /\ offset2 = 2
    /\ Len(traces1) > Len(traces2) - offset2
    /\ Len(cmpLog) = Len(traces2) - offset2

----------------------------------------------------------------------------
(* Reference notions for symbol resolution *)

Looked == q2 >= 0

\* indices of the function symbols (kinds T/t/W/w) of the table as built with address <= a
Qualifying(a) ==
    {k \in 1..Len(symbols0) :
        symbols0[k].type \in {"T", "t", "W", "w"} /\ symbols0[k].addr <= a}

\* those of them at the greatest such address
AtGreatest(a) ==
    {k \in Qualifying(a) : \A j \in Qualifying(a) : symbols0[j].addr <= symbols0[k].addr}

Largest(S) == CHOOSE x \in S : \A y \in S : y <= x

\* address of the symbol a lookup of q resolved to, from the returned name+offset
ResolvedAddr(q, r) == q - r.offset

(* C13: for every table and pc, addr_to_symbol returns the name of the     *)
(* function symbol with the greatest address <= pc, with offset pc minus   *)
(* that address, and returns None exactly when no function symbol has      *)
(* address <= pc.                                                          *)
Cex_C13_NearestBelow ==
    Looked =>
        /\ r2.found <=> (Qualifying(q2) # {})
        /\ r2.found =>
              \E k \in AtGreatest(q2) :
                  /\ r2.name = symbols0[k].name
                  /\ r2.offset = q2 - symbols0[k].addr

(* C14 as stated: when several function symbols share the greatest address *)
(* <= pc, a lookup that returns a symbol returns the last of them in table *)
(* order.                                                                  *)
Cex_C14_LastOfTies ==
    (Looked /\ r2.found /\ Cardinality(AtGreatest(q2)) >= 2) =>
        r2.name = symbols0[Largest(AtGreatest(q2))].name

(* C14 amended: when several function symbols share the greatest address   *)
(* <= pc, a lookup that returns a symbol returns the FIRST of them in      *)
(* table order.                                                            *)
Thm_C14_FirstOfTies ==
    (Looked /\ r2.found /\ Cardinality(AtGreatest(q2)) >= 2) =>
        r2.name = symbols0[Smallest(AtGreatest(q2))].name

Wit_C14_FirstOfTies ==
    /\ Looked /\ r2.found
    /\ Cardinality(AtGreatest(q2)) >= 2
    /\ Qualifying(q2) # AtGreatest(q2)
    /\ r2.offset > 0

(* C15: for pc1 <= pc2 both resolved against the same table, the symbol    *)
(* resolved for pc2 is at an address not below the one resolved for pc1,   *)
(* and the table is what it was before the lookups.                        *)
Thm_C15_Monotone ==
    /\ symbols = symbols0
    /\ (q1 >= 0 /\ q1 <= q2 /\ r1.found /\ r2.found) =>
          ResolvedAddr(q1, r1) <= ResolvedAddr(q2, r2)

Wit_C15_Monotone ==
    /\ q1 >= 0 /\ q1 < q2
    /\ r1.found /\ r2.found
    /\ r1.offset > 0
    /\ ResolvedAddr(q1, r1) < ResolvedAddr(q2, r2)
    /\ symbols # <<>>

----------------------------------------------------------------------------
(* Reference notions for trace text.  A line of the cycle-log grammar is   *)
(* <decimal> 0x<hex> (0x<hex>) ...; a line of the commit-log grammar is    *)
(* core <id>: [<privilege>] 0x<hex> (0x<hex>) ...                          *)

KindsOf(line) == [n \in 1..Len(line) |-> line[n].k]

Prefix(q, n) == SubSeq(q, 1, n)

IsCycleLogLine(line) ==
    Len(line) >= 3 /\ Prefix(KindsOf(line), 3) = <<"dec", "hex", "phex">>

IsCommitLogLine(line) ==
    \/ Len(line) >= 4 /\ Prefix(KindsOf(line), 4) = <<"core", "id", "hex", "phex">>
    \/ Len(line) >= 5 /\ Prefix(KindsOf(line), 5) = <<"core", "id", "dec", "hex", "phex">>

InGrammar(parser, line) ==
    IF parser = "rtl" THEN IsCycleLogLine(line) ELSE IsCommitLogLine(line)

Pow16(n) == IF n = 0 THEN 1 ELSE IF n = 1 THEN 16 ELSE 256

\* value of a hex digit string of at most three digits
HexValue(d) == IF d = <<>> THEN 0
               ELSE LET S == {<<n, d[n] * Pow16(Len(d) - n)>> : n \in 1..Len(d)}
                        sum[T \in SUBSET S] ==
                            IF T = {} THEN 0
                            ELSE LET x == CHOOSE y \in T : TRUE
                                 IN  x[2] + sum[T \ {x}]
                    IN  sum[S]

\* the (pc, instr) a grammar line states: the first 0x<hex> and the (0x<hex>) after it
StatedPcInstr(line) ==
    LET n == CHOOSE m \in 1..Len(line) : line[m].k = "hex"
    IN  <<HexValue(line[n].d), HexValue(line[n + 1].d)>>

\* 1-based positions of the grammar lines among the first n lines of the file
GrammarLines(parser, n) == {k \in 1..n : InGrammar(parser, pfile[k])}

\* the k-th smallest element of a set of numbers
Nth(S, k) == CHOOSE x \in S : Cardinality({y \in S : y <= x}) = k

(* C12: parsing is one forward pass in which exactly the grammar lines     *)
(* yield a record: after n lines the output is, in input order, one record *)
(* per grammar line among them, carrying that line's pc and instr; blank,  *)
(* comment and other lines add nothing and do not stop the pass.           *)
Thm_C12_TolerantParse ==
    (pparser # "none") =>
        LET G == GrammarLines(pparser, pidx - 1)
        IN  /\ Len(ptraces) = Cardinality(G)
            /\ \A k \in 1..Len(ptraces) :
                  /\ ptraces[k].line = pfile[Nth(G, k)]
                  /\ <<ptraces[k].pc, ptraces[k].instr>> = StatedPcInstr(pfile[Nth(G, k)])

Wit_C12_TolerantParse ==
    /\ pparser = "rtl"
    /\ pidx = Len(pfile) + 1
    /\ Len(pfile) = 3
    /\ ~InGrammar("rtl", pfile[2])
    /\ Len(ptraces) = 2
    /\ ptraces[1].pc = 132
    /\ ptraces[2].pc = 128

----------------------------------------------------------------------------
(* Reference notions for format detection *)

Significant(line) == line # <<>> /\ line[1].k # "hash"

\* the first line of the file that is neither blank nor a comment, <<>> if none
FirstSignificant(file) ==
    IF \E k \in 1..Len(file) : Significant(file[k])
    THEN file[CHOOSE k \in 1..Len(file) :
                 Significant(file[k]) /\ \A m \in 1..(k - 1) : ~Significant(file[m])]
    ELSE <<>>

\* the format the first significant line alone suggests
ByLeadingToken(file) ==
    LET l == FirstSignificant(file)
    IN  IF l = <<>> THEN "unknown"
        ELSE IF l[1].k = "dec" THEN "rtl"
        ELSE IF l[1].k = "core" THEN "spike"
        ELSE "unknown"

\* the format a line shows: <decimal> 0x<hex> (0x<hex>), or core <id>:
Shows(line) ==
    IF IsCycleLogLine(line) THEN "rtl"
    ELSE IF Len(line) >= 2 /\ line[1].k = "core" /\ line[2].k = "id" THEN "spike"
    ELSE "unknown"

\* the format of the first line of the file that shows one
ByFirstRecognised(file) ==
    IF \E k \in 1..Len(file) : Shows(file[k]) # "unknown"
    THEN Shows(file[CHOOSE k \in 1..Len(file) :
                       Shows(file[k]) # "unknown"
                       /\ \A m \in 1..(k - 1) : Shows(file[m]) = "unknown"])
    ELSE "unknown"

NeverCompared == mode = "none" /\ pc = "start" /\ cmpLog = <<>> /\ ret = -1

UnknownFailsFast ==
    (cpc = "exit" /\ (type1 = "unknown" \/ type2 = "unknown")) =>
        (cexit = 1 /\ NeverCompared)

(* C11 as stated: the detected format is the one the leading token of the  *)
(* first non-blank, non-comment line gives (decimal: rtl, core: spike,     *)
(* anything else: unknown), and an unknown format ends the two-file run    *)
(* with status 1 and no comparison.                                        *)
Cex_C11_FirstLineAlone ==
    /\ (type1 # "") => type1 = ByLeadingToken(cfile1)
    /\ (type2 # "") => type2 = ByLeadingToken(cfile2)
    /\ UnknownFailsFast

(* C11 amended: the detected format is the one shown by the first line     *)
(* that shows any (a line beginning <decimal> 0x<hex> (0x<hex>) shows rtl, *)
(* a line beginning core <id>: shows spike; other lines are passed over),  *)
(* unknown when no line shows one; an unknown format ends the two-file run *)
(* with status 1 and no comparison.                                        *)
Thm_C11_FirstRecognisedLine ==
    /\ (type1 # "") => type1 = ByFirstRecognised(cfile1)
    /\ (type2 # "") => type2 = ByFirstRecognised(cfile2)
    /\ UnknownFailsFast

Wit_C11_FirstRecognisedLine ==
    /\ cpc = "exit"
    /\ type1 = "spike"
    /\ Len(cfile1) = 2
    /\ ByLeadingToken(cfile1) = "unknown"
    /\ type2 = "unknown"
    /\ cfile2 # <<>>
    /\ ByLeadingToken(cfile2) = "rtl"
    /\ cexit = 1
    /\ NeverCompared

----------------------------------------------------------------------------
(* Reference notions for the call tree *)

Height == Len(call_stack)

TreeDone == tphase = "done"

NodeKey(n) == <<n.depth, n.text[1], n.line \div 100>>

LastNode(out) == out[Len(out)]

ButLast(q) == [k \in 1..(Len(q) - 1) |-> q[k]]

\* the record of entry k of the file, as the detected format reads it
RecPc(k) ==
    IF Len(tfile[k].text) < 2 THEN -1
    ELSE TreePc(DetectTreeFormat(tfile), tfile[k].text)

RecIsCall(k) ==
    RecPc(k) # -1
    /\ IsCall(tfile[k].text, TreeInstr(DetectTreeFormat(tfile), tfile[k].text))

RecIsReturn(k) ==
    RecPc(k) # -1
    /\ IsReturn(tfile[k].text, TreeInstr(DetectTreeFormat(tfile), tfile[k].text))

\* C and Rt: the records of the whole trace detected as calls, as returns
TotalCalls == Cardinality({k \in 1..Len(tfile) : RecIsCall(k)})

TotalReturns == Cardinality({k \in 1..Len(tfile) : RecIsReturn(k)})

\* a record is being handled (in either half of the loop body)
AtRecord == tphase \in {"read", "update"} /\ tidx <= Len(tfile) /\ CurPc # -1

Resolving == tphase = "read" /\ AtRecord

Updating == tphase = "update" /\ AtRecord

PureReturn == CurIsReturn /\ ~CurIsCall

(* C16 as stated: with C calls and Rt <= C returns detected in the trace,  *)
(* the stack height never exceeds C, no node depth exceeds C, and the      *)
(* height after the last record is C - Rt.                                 *)
Cex_C16_StackBalance ==
    (tphase # "none" /\ TotalReturns <= TotalCalls) =>
        /\ Height <= TotalCalls
        /\ \A k \in 1..Len(tree_output) : tree_output[k].depth <= TotalCalls
        /\ TreeDone => Height = TotalCalls - TotalReturns

(* C16 amended: the stack height never exceeds the number of call records  *)
(* handled so far (so never C), every node depth is below C, and the       *)
(* height always equals the number of call records that pushed a frame     *)
(* minus the number of return records that popped one; these are at most   *)
(* the calls and the returns detected, so the final height is at most C    *)
(* and is C - Rt exactly when every call pushed and every return popped.   *)
Thm_C16_PushesMinusPops ==
    (tphase # "none") =>
        /\ Height <= nCalls
        /\ nCalls <= TotalCalls
        /\ nRets <= TotalReturns
        /\ \A k \in 1..Len(tree_output) : tree_output[k].depth < TotalCalls
        /\ Height = nPush - nPop
        /\ nPush <= nCalls
        /\ nPop <= nRets
        /\ TreeDone => /\ nCalls = TotalCalls
                       /\ nRets = TotalReturns
                       /\ Height <= TotalCalls
                       /\ (Height = TotalCalls - TotalReturns)
                             <=> (TotalCalls - nPush = TotalReturns - nPop)

Wit_C16_PushesMinusPops ==
    /\ TreeDone
    /\ TotalCalls = 2
    /\ TotalReturns = 1
    /\ nPush = 1
    /\ nPop = 1
    /\ Height = 0

(* C17 as stated: a record detected as a return leaves an empty stack      *)
(* empty and emits nothing; with a non-empty stack it pops exactly one     *)
(* frame and emits no node.                                                *)
Cex_C17_ReturnPopsOne ==
    [][ /\ (Resolving /\ CurIsReturn) => tree_output' = tree_output
        /\ (Updating /\ CurIsReturn) =>
              /\ tree_output' = tree_output
              /\ ~traised'
              /\ IF call_stack = <<>>
                 THEN call_stack' = <<>>
                 ELSE call_stack' = ButLast(call_stack) ]_allVars

(* C17 amended: a record detected as a return and not as a call, met with  *)
(* an empty stack, changes neither stack nor tree and the loop goes on; met*)
(* with a non-empty stack it pops exactly one frame when its pc resolves   *)
(* to a symbol and none otherwise; the pop emits no node, and the only     *)
(* node such a record adds is that of the pending frame it resolves first. *)
(* A record detected as both is handled as a call and pops nothing.        *)
Thm_C17_ReturnRecord ==
    [][ /\ (Resolving /\ PureReturn) =>
              /\ Len(call_stack') = Len(call_stack)
              /\ tree_output' # tree_output =>
                    /\ Top(call_stack).pending
                    /\ ButLast(tree_output') = tree_output
                    /\ LastNode(tree_output').line = Top(call_stack).line
              /\ tphase' = "update" /\ ~traised'
        /\ (Updating /\ PureReturn) =>
              /\ tree_output' = tree_output
              /\ IF CurFunc.found /\ call_stack # <<>>
                 THEN call_stack' = ButLast(call_stack)
                 ELSE call_stack' = call_stack
              /\ tphase' = "read" /\ tidx' = tidx + 1 /\ ~traised'
        /\ (Updating /\ CurIsReturn /\ CurIsCall) =>
              Len(call_stack') >= Len(call_stack) ]_allVars

Wit_C17_ReturnRecord ==
    /\ trace_format = "rtl"
    /\ tphase = "read"
    /\ tidx = 4
    /\ RecIsReturn(3) /\ ~RecIsCall(3)
    /\ nPush = 2
    /\ nPop = 1
    /\ Height = 1
    /\ Len(tree_output) = 2

(* C18 as stated: a detected call whose key (stack depth, target name,     *)
(* line // 100) was already seen emits no node but still pushes a frame.   *)
Cex_C18_DedupStillPushes ==
    [][ (/\ Updating
         /\ CurIsCall
         /\ CurFunc.found
         /\ Target(CurText) # ""
         /\ CallKey(Len(call_stack), Target(CurText), line_num) \in seen_calls)
        => /\ tree_output' = tree_output
           /\ Len(call_stack') = Len(call_stack) + 1 ]_allVars

(* C19: no two emitted nodes have the same key (depth, target name,        *)
(* line // 100), and a node is emitted with the call's own frame on top of *)
(* the stack and its depth equal to the number of frames below that frame. *)
Thm_C19_UniqueKeys ==
    /\ [](\A j, k \in 1..Len(tree_output) :
             NodeKey(tree_output[j]) = NodeKey(tree_output[k]) => j = k)
    /\ [][ tree_output' # tree_output =>
              /\ ButLast(tree_output') = tree_output
              /\ call_stack' # <<>>
              /\ Top(call_stack').line = LastNode(tree_output').line
              /\ Top(call_stack').entry_pc = LastNode(tree_output').pc
              /\ Top(call_stack').name = LastNode(tree_output').text[1]
              /\ LastNode(tree_output').depth = Len(call_stack') - 1 ]_allVars

Wit_C19_UniqueKeys ==
    /\ trace_format = "spike"
    /\ TreeDone
    /\ nPush = 2
    /\ nPop = 2
    /\ Len(tree_output) = 1
    /\ Cardinality(seen_calls) = 1

(* C20 as stated: a detected call without target annotation pushes a       *)
(* pending frame, and the next processed record resolves it.               *)
Cex_C20_NextRecordResolves ==
    [][ /\ (Updating /\ CurIsCall /\ Target(CurText) = "") =>
              /\ Len(call_stack') = Len(call_stack) + 1
              /\ Top(call_stack').pending
              /\ Top(call_stack').name = ""
        /\ (Resolving /\ call_stack # <<>> /\ Top(call_stack).pending) =>
              /\ ~Top(call_stack').pending
              /\ Top(call_stack').name = CurFunc.name ]_allVars

(* C20 amended: a detected call without target annotation pushes a pending *)
(* frame (no name) exactly when the trace format is spike and the call's   *)
(* own pc resolves to a symbol, and pushes nothing otherwise.  A pending   *)
(* frame is resolved by the first later record whose pc resolves to a      *)
(* symbol, which becomes its target; records whose pc resolves to none     *)
(* leave it pending.  Its node is emitted at that resolution only, with    *)
(* that symbol as target, and while a frame is pending it is the top       *)
(* frame, has no name and has no node.                                     *)
Thm_C20_DeferredTarget ==
    /\ [](\A k \in 1..Len(call_stack) :
             call_stack[k].pending =>
                 /\ k = Len(call_stack)
                 /\ call_stack[k].name = ""
                 /\ \A n \in 1..Len(tree_output) :
                       tree_output[n].line # call_stack[k].line)
    /\ [][ /\ (Updating /\ CurIsCall /\ Target(CurText) = "") =>
                 /\ tree_output' = tree_output
                 /\ IF trace_format = "spike" /\ CurFunc.found
                    THEN call_stack' =
                            Append(call_stack, Frame("", CurPc, line_num, -1, TRUE))
                    ELSE call_stack' = call_stack
           /\ (Resolving /\ call_stack # <<>> /\ Top(call_stack).pending) =>
                 IF CurFunc.found
                 THEN /\ Len(call_stack') = Len(call_stack)
                      /\ ButLast(call_stack') = ButLast(call_stack)
                      /\ ~Top(call_stack').pending
                      /\ Top(call_stack').name = CurFunc.name
                      /\ Top(call_stack').line = Top(call_stack).line
                      /\ tree_output' # tree_output =>
                            /\ ButLast(tree_output') = tree_output
                            /\ LastNode(tree_output').text[1] = CurFunc.name
                            /\ LastNode(tree_output').line = Top(call_stack).line
                 ELSE call_stack' = call_stack /\ tree_output' = tree_output ]_allVars

Wit_C20_DeferredTarget ==
    /\ trace_format = "spike"
    /\ tphase = "update"
    /\ tidx = 3
    /\ RecIsCall(1)
    /\ RecPc(2) = 4
    /\ Len(tree_output) = 1
    /\ tree_output[1].line = 1
    /\ tree_output[1].text[1] = "foo"
    /\ ~Top(call_stack).pending

(* C21 as stated: a pending frame that no later record resolves stays      *)
(* unnamed and still gets a node, so at the end of the trace every frame   *)
(* left on the stack has a node (or a seen key) of its own.                *)
Cex_C21_UnresolvedNodeEmitted ==
    TreeDone =>
        \A k \in 1..Len(call_stack) :
            /\ call_stack[k].pending => call_stack[k].name = ""
            /\ \/ \E n \in 1..Len(tree_output) :
                     tree_output[n].line = call_stack[k].line
               \/ \E key \in seen_calls :
                     key[1] = k - 1 /\ key[3] = call_stack[k].line \div 100

----------------------------------------------------------------------------
(* Reference notions for the call-then-return scenario *)

\* some function symbol lies at a non-zero address at or below p
CallerResolves(p) ==
    \E k \in 1..Len(symbols) :
        /\ symbols[k].type \in {"T", "t", "W", "w"}
        /\ symbols[k].addr > 0
        /\ symbols[k].addr <= p

\* the call line names its target
CallAnnotated ==
    \E k \in 1..Len(tfile) :
        /\ RecIsCall(k)
        /\ \E n \in 1..Len(tfile[k].text) :
              tfile[k].text[n] = Tok("tgt", <<2>>) /\ SymName(2) = "foo"

OneNodeForFoo ==
    /\ Len(tree_output) = 1
    /\ tree_output[1].text[1] = "foo"
    /\ tree_output[1].depth = 0
    /\ tree_output[1].pc = 16
    /\ call_stack = <<>>
    /\ ~traised

----------------------------------------------------------------------------
(* Reference notions for the classification of a record *)

Classified == dstage = "classified"

HasAnnotation == \E n \in 1..Len(dline) : dline[n].k = "semi"

HasWord == dw # -1

\* the mnemonic of the disassembly comment, "" if there is none
Mnemonic ==
    IF HasAnnotation
    THEN dline[(CHOOSE n \in 1..Len(dline) : dline[n].k = "semi") + 1].k
    ELSE ""

WritesX1 == \E n \in 1..Len(dline) : dline[n].k = "x1"

LowOpcode(w) == w % 128

DestReg(w) == (w \div 128) % 32

BaseReg(w) == (w \div 32768) % 32

DecodesAsCall(w) == LowOpcode(w) \in {111, 103} /\ DestReg(w) = 1

DecodesAsReturn(w) == LowOpcode(w) = 103 /\ DestReg(w) = 0 /\ BaseReg(w) = 1

(* C23: a record without disassembly annotation is a call iff its opcode   *)
(* word w has (w mod 128) in {0x6F, 0x67} and ((w div 128) mod 32) = 1;    *)
(* without a parsable opcode and without annotation it is never a call.    *)
Thm_C23_CallByDecode ==
    (Classified /\ ~HasAnnotation) =>
        IF HasWord THEN d_is_call <=> DecodesAsCall(dw) ELSE ~d_is_call

Wit_C23_CallByDecode ==
    /\ Classified
    /\ ~HasAnnotation
    /\ HasWord
    /\ BaseReg(dw) = 5
    /\ dw >= 268435456
    /\ d_is_call

(* C24: a record without disassembly annotation is a return iff its opcode *)
(* word w has (w mod 128) = 0x67, ((w div 2^7) mod 32) = 0 and             *)
(* ((w div 2^15) mod 32) = 1; so decode never makes a record both.         *)
Thm_C24_ReturnByDecode ==
    (Classified /\ ~HasAnnotation) =>
        /\ IF HasWord THEN d_is_return <=> DecodesAsReturn(dw) ELSE ~d_is_return
        /\ ~(d_is_call /\ d_is_return)

Wit_C24_ReturnByDecode ==
    /\ Classified
    /\ ~HasAnnotation
    /\ HasWord
    /\ dw >= 268435456
    /\ WritesX1
    /\ d_is_return

\* the comment and the register write say what the opcode word says
Truthful ==
    /\ Mnemonic = "jal" => LowOpcode(dw) = 111
    /\ Mnemonic = "jalr" => LowOpcode(dw) = 103 /\ ~DecodesAsReturn(dw)
    /\ Mnemonic = "ret" => DecodesAsReturn(dw)
    /\ Mnemonic = "word" => LowOpcode(dw) \notin {111, 103}
    /\ WritesX1 <=> (DestReg(dw) = 1 /\ LowOpcode(dw) # 99)

(* C25 as stated: for a record with both a disassembly annotation and an   *)
(* opcode word (that say the same), is_call and is_return are what         *)
(* decoding the opcode word gives.                                         *)
Cex_C25_PathsAgree ==
    (Classified /\ HasAnnotation /\ HasWord /\ Truthful) =>
        /\ d_is_call <=> DecodesAsCall(dw)
        /\ d_is_return <=> DecodesAsReturn(dw)

----------------------------------------------------------------------------
(* C26: get_stack_frame_size is invoked at most once per distinct function *)
(* name, a None result included; frames of the same function carry the     *)
(* cached value; an entry of stack_size_cache is never changed.            *)
ScannedOnce ==
    /\ \A a, b \in 1..Len(scans) : scans[a] = scans[b] => a = b
    /\ {scans[a] : a \in 1..Len(scans)} = DOMAIN stack_size_cache
    /\ \A k \in 1..Len(call_stack) :
          ~call_stack[k].pending =>
              /\ call_stack[k].name \in DOMAIN stack_size_cache
              /\ call_stack[k].stack_size = stack_size_cache[call_stack[k].name]

CacheKept ==
    \A n \in DOMAIN stack_size_cache :
        /\ n \in DOMAIN stack_size_cache'
        /\ stack_size_cache'[n] = stack_size_cache[n]

Thm_C26_FrameSizeCached == []ScannedOnce /\ [][CacheKept]_allVars

Wit_C26_FrameSizeCached ==
    /\ TreeDone
    /\ "bar" \in DOMAIN stack_size_cache
    /\ stack_size_cache["bar"] = -1
    /\ Cardinality({k \in 1..Len(call_stack) : call_stack[k].name = "bar"}) >= 2
    /\ Len(scans) >= 2

----------------------------------------------------------------------------
(* Reference notions for the memory-trace verdict *)

MemDone == mpc = "done"

\* positions of the log lines with a tag, all or those outside the magic addresses
LinesOf(tag) == {n \in 1..Len(mlog) : mlog[n].tag = tag}

PlainLinesOf(tag) == {n \in LinesOf(tag) : mlog[n].addr \notin {"fffffff0", "fffffff4"}}

\* every line of cpu is paired with a line of axi of the same address and
\* data, no line of axi paired twice
AllMatched(cpu, axi) ==
    \E f \in [cpu -> axi \cup {0}] :
        /\ \A c \in cpu :
              /\ f[c] # 0
              /\ mlog[f[c]].addr = mlog[c].addr
              /\ mlog[f[c]].data = mlog[c].data
        /\ \A c, e \in cpu : f[c] = f[e] => c = e

DataReadsMatched == AllMatched(LinesOf("CPU_DMEM READ"), LinesOf("AXI_MEM READ"))

DataWritesMatched == AllMatched(PlainLinesOf("CPU_DMEM WRITE"), LinesOf("AXI_MEM WRITE"))

FetchesMatched == AllMatched(LinesOf("CPU_IMEM READ"), LinesOf("AXI_MEM READ"))

(* C27: on a log that exists, the analyzer exits 0 iff every CPU data read *)
(* is matched by an AXI read of the same address and data and every CPU    *)
(* data write outside fffffff0 / fffffff4 by such an AXI write, an AXI     *)
(* transaction matching at most one CPU transaction; unmatched instruction *)
(* fetches only raise the warning and leave the exit status alone.         *)
Thm_C27_MemVerdict ==
    (MemDone /\ mfound) =>
        /\ mexit = 0 <=> (DataReadsMatched /\ DataWritesMatched)
        /\ mexit \in {0, 1}
        /\ mwarned <=> (mexit = 0 /\ ~FetchesMatched)

Wit_C27_MemVerdict ==
    /\ MemDone
    /\ mfound
    /\ mexit = 0
    /\ mwarned
    /\ dmem_read_matches = 1

Wit_C27_AxiUsedOnce ==
    /\ MemDone
    /\ mexit = 1
    /\ Len(cpu_dmem_reads) = 2
    /\ dmem_read_matches = 1
    /\ cpu_dmem_reads[1] = cpu_dmem_reads[2]

Wit_C27_MagicWrite ==
    /\ MemDone
    /\ mexit = 0
    /\ Len(cpu_dmem_writes) = 2
    /\ dmem_write_matches = 1

----------------------------------------------------------------------------
(* C28 as stated: compare_three_way returns 1 by an EmptyInputFail branch  *)
(* whenever one of its three streams is empty.                             *)
Cex_C28_ThreeWayEmptyFails ==
    (Done /\ mode = "three" /\ (traces1 = <<>> \/ traces2 = <<>> \/ traces3 = <<>>)) =>
        /\ ret = 1
        /\ verdict = "EmptyInputFail"

----------------------------------------------------------------------------
(* Reference notions for the agreement of the two routines *)

BothRan == agstage = "sim" /\ Done

\* alignment succeeds, nothing differs, and A outruns the aligned rest of B
LongerClean ==
    /\ Alignable
    /\ Cardinality(DiffPositions2(PivotOffset)) = 0
    /\ Len(traces1) > Len(traces2) - PivotOffset

(* C29 as stated: for every pair of streams the two compare_traces return  *)
(* the same exit status, also when A is longer than the aligned remainder  *)
(* of B with zero mismatches.                                              *)
Cex_C29_SameExit == BothRan => ret = ret_scripts

(* C29, amended: the two compare_traces return the same exit status for    *)
(* every pair of streams except when alignment succeeds, no mismatch is    *)
(* found and A is longer than the aligned remainder of B; there the        *)
(* scripts routine returns 0 and the sim routine returns 1.                *)
Thm_C29_AgreeButLonger ==
    BothRan =>
        IF LongerClean
        THEN ret_scripts = 0 /\ ret = 1
        ELSE ret = ret_scripts /\ ret \in {0, 1}

Wit_C29_AgreeButLonger ==
    /\ BothRan
    /\ LongerClean
    /\ PivotOffset >= 1
    /\ verdict_scripts = "PartialMatchLonger"
    /\ verdict = "LengthMismatchFail"

Wit_C29_AgreeOnMismatch ==
    /\ BothRan
    /\ ret = 1
    /\ ret_scripts = 1
    /\ verdict = "MismatchFail"

----------------------------------------------------------------------------
(* C30 as stated: patch_kconfig is idempotent -- for every file content,   *)
(* wherever its anchor lines are, a second run leaves the file as the      *)
(* first run left it.                                                      *)
Cex_C30_Idempotent == kruns >= 2 => kfile = kfile1

====
